---- MODULE Spec2Model ----
(***************************************************************************)
(* Account lifecycle and ledger model of the reseller user manager.       *)
(*                                                                         *)
(* Python values are encoded as strings: ABSENT is a key that is missing   *)
(* from a dict, NONE is None, PY_TRUE / PY_FALSE are the booleans, "" is   *)
(* the empty string.  Money is counted in cents, so round(x, 2) is exact   *)
(* on every amount of the model.  Timestamps are the strings of            *)
(* TimeStrings, ordered like the formatted datetimes they stand for.       *)
(* The localized sale-type labels of the legacy fields are written in      *)
(* ASCII: LABEL_DIRECT and LABEL_DISTRIBUTION.                             *)
(***************************************************************************)
EXTENDS Integers, Sequences, FiniteSets, TLC

\* ---- domain_models.py: constants ----------------------------------------

ACCOUNT_STATUS_AGENT_STOCK == "agent_stock"
ACCOUNT_STATUS_DISTRIBUTOR_STOCK == "distributor_stock"
ACCOUNT_STATUS_SOLD == "sold"

SALE_TYPE_DIRECT == "direct_sale"
SALE_TYPE_DISTRIBUTION == "distribution_sale"

ROLE_ADMIN == "admin"
ROLE_AGENT == "agent"
ROLE_DISTRIBUTOR == "distributor"
ROLE_CUSTOMER == "customer"

TRANSACTION_ADMIN_TO_AGENT == "admin_to_agent_wholesale"
TRANSACTION_AGENT_PURCHASE == "agent_purchase"
TRANSACTION_AGENT_DIRECT_SALE == "agent_direct_sale"
TRANSACTION_AGENT_TO_DISTRIBUTOR == "agent_to_distributor_wholesale"
TRANSACTION_DISTRIBUTOR_SALE == "distributor_sale"
TRANSACTION_ASSIGNMENT == "distribution_assignment"
TRANSACTION_LEGACY == "legacy"

\* the localized labels written to the legacy sale_type field
LABEL_DIRECT == "zongbu_zhixiao"
LABEL_DISTRIBUTION == "fenxiao_shouchu"

\* ---- Python values -------------------------------------------------------

ABSENT == "<absent>"
NONE == "<none>"
PY_TRUE == "<True>"
PY_FALSE == "<False>"

Falsy == {ABSENT, NONE, "", PY_FALSE}
Truthy(v) == v \notin Falsy
\* dict.get(key): a missing key reads as None
Get(v) == IF v = ABSENT THEN NONE ELSE v
\* dict.get(key, default)
GetOr(v, default) == IF v = ABSENT THEN default ELSE v
\* a or b
PyOr(a, b) == IF Truthy(a) THEN a ELSE b
PyBool(b) == IF b THEN PY_TRUE ELSE PY_FALSE

\* ---- AccountState --------------------------------------------------------

ValidStatuses ==
  {ACCOUNT_STATUS_AGENT_STOCK, ACCOUNT_STATUS_DISTRIBUTOR_STOCK, ACCOUNT_STATUS_SOLD}
ValidSaleTypes == {SALE_TYPE_DIRECT, SALE_TYPE_DISTRIBUTION, NONE}

\* AccountState(): the dataclass defaults
AccountState ==
  [owner |-> NONE, manager |-> NONE, status |-> ACCOUNT_STATUS_AGENT_STOCK,
   sale_type |-> NONE, sold_at |-> NONE]

\* ensure_defaults leaving an invalid status in place
ensure_defaults_KeepStatus(s) ==
  LET m == IF ~Truthy(s.manager) THEN s.owner ELSE s.manager
      ty == IF s.sale_type \notin ValidSaleTypes THEN NONE ELSE s.sale_type
  IN [s EXCEPT !.manager = m, !.sale_type = ty]

ensure_defaults(s) ==
  LET m == IF ~Truthy(s.manager) THEN s.owner ELSE s.manager
      st == IF s.status \notin ValidStatuses
            THEN ACCOUNT_STATUS_AGENT_STOCK ELSE s.status
      ty == IF s.sale_type \notin ValidSaleTypes THEN NONE ELSE s.sale_type
  IN [s EXCEPT !.manager = m, !.status = st, !.sale_type = ty]

\* ---- user records --------------------------------------------------------

\* the "accounting" sub-dict; present = FALSE is a record without the key
NoAccounting ==
  [present |-> FALSE, owner |-> ABSENT, manager |-> ABSENT, status |-> ABSENT,
   sale_type |-> ABSENT, sold_at |-> ABSENT]

\* a user dict with no key set (roles = {} stands for a missing or empty list)
EmptyRecord ==
  [owner |-> ABSENT, manager |-> ABSENT, status |-> ABSENT, sale_type |-> ABSENT,
   sold_at |-> ABSENT, forsale |-> ABSENT, distribution_tag |-> ABSENT,
   distributor_forsale |-> ABSENT, distributor_sold |-> ABSENT,
   assigned_distributor |-> ABSENT, source |-> ABSENT, roles |-> {},
   is_admin |-> ABSENT, is_agent |-> ABSENT, is_distributor |-> ABSENT,
   distributor_owner |-> ABSENT, price |-> 0, product |-> ABSENT,
   created_at |-> ABSENT, sold_by |-> ABSENT, assigned_at |-> ABSENT,
   transferred_at |-> ABSENT, accounting |-> NoAccounting]

InventorySources == {"agent", "batch", "distribution", "admin_transfer"}

\* _is_inventory_record taking any source tag for an inventory tag
_is_inventory_record_AnySource(data) ==
  \/ Truthy(Get(data.owner))
  \/ data.forsale # ABSENT
  \/ data.distribution_tag # ABSENT
  \/ data.distributor_forsale # ABSENT
  \/ data.assigned_distributor # ABSENT
  \/ Truthy(Get(data.source))

_is_inventory_record(data) ==
  \/ Truthy(Get(data.owner))
  \/ data.forsale # ABSENT
  \/ data.distribution_tag # ABSENT
  \/ data.distributor_forsale # ABSENT
  \/ data.assigned_distributor # ABSENT
  \/ Get(data.source) \in InventorySources

_normalise_roles(data) ==
  LET r1 == data.roles
            \cup (IF Truthy(Get(data.is_admin)) THEN {ROLE_ADMIN} ELSE {})
            \cup (IF Truthy(Get(data.is_agent)) THEN {ROLE_AGENT} ELSE {})
            \cup (IF Truthy(Get(data.is_distributor)) THEN {ROLE_DISTRIBUTOR} ELSE {})
      roles == IF r1 = {} THEN {ROLE_CUSTOMER} ELSE r1
  IN [data EXCEPT !.roles = roles,
                  !.is_admin = PyBool(ROLE_ADMIN \in roles),
                  !.is_agent = PyBool(ROLE_AGENT \in roles),
                  !.is_distributor = PyBool(ROLE_DISTRIBUTOR \in roles)]

IsBusinessRecord(data) ==
  \/ ROLE_AGENT \in data.roles
  \/ ROLE_ADMIN \in data.roles
  \/ ROLE_DISTRIBUTOR \in data.roles

\* _sync_legacy_flags leaving assigned_distributor in place for agent stock
_sync_legacy_flags_KeepAssigned(data, state) ==
  IF IsBusinessRecord(data) THEN data
  ELSE
    LET managed == Truthy(state.manager) /\ state.manager # state.owner
        d1 == [data EXCEPT !.owner = state.owner, !.manager = state.manager]
        d2 == IF state.status = ACCOUNT_STATUS_AGENT_STOCK
              THEN [d1 EXCEPT !.forsale = PY_TRUE,
                              !.distribution_tag = PY_FALSE,
                              !.distributor_forsale = PY_FALSE,
                              !.distributor_sold = PY_FALSE]
              ELSE IF state.status = ACCOUNT_STATUS_DISTRIBUTOR_STOCK
              THEN [d1 EXCEPT !.forsale = PY_FALSE,
                              !.distribution_tag = PY_TRUE,
                              !.distributor_forsale = PY_TRUE,
                              !.distributor_sold = PY_FALSE,
                              !.assigned_distributor = state.manager]
              ELSE [d1 EXCEPT !.forsale = PY_FALSE,
                              !.distribution_tag = PyBool(managed),
                              !.distributor_forsale = PY_FALSE,
                              !.distributor_sold =
                                 PyBool(state.sale_type = SALE_TYPE_DISTRIBUTION),
                              !.assigned_distributor =
                                 IF managed THEN state.manager ELSE ABSENT]
        d3 == [d2 EXCEPT !.sale_type =
                 IF state.sale_type = SALE_TYPE_DIRECT THEN LABEL_DIRECT
                 ELSE IF state.sale_type = SALE_TYPE_DISTRIBUTION
                      THEN LABEL_DISTRIBUTION
                      ELSE ABSENT]
    IN IF Truthy(state.sold_at) THEN [d3 EXCEPT !.sold_at = state.sold_at] ELSE d3

_sync_legacy_flags(data, state) ==
  IF IsBusinessRecord(data) THEN data
  ELSE
    LET managed == Truthy(state.manager) /\ state.manager # state.owner
        d1 == [data EXCEPT !.owner = state.owner, !.manager = state.manager]
        d2 == IF state.status = ACCOUNT_STATUS_AGENT_STOCK
              THEN [d1 EXCEPT !.forsale = PY_TRUE,
                              !.distribution_tag = PY_FALSE,
                              !.distributor_forsale = PY_FALSE,
                              !.distributor_sold = PY_FALSE,
                              !.assigned_distributor = ABSENT]
              ELSE IF state.status = ACCOUNT_STATUS_DISTRIBUTOR_STOCK
              THEN [d1 EXCEPT !.forsale = PY_FALSE,
                              !.distribution_tag = PY_TRUE,
                              !.distributor_forsale = PY_TRUE,
                              !.distributor_sold = PY_FALSE,
                              !.assigned_distributor = state.manager]
              ELSE [d1 EXCEPT !.forsale = PY_FALSE,
                              !.distribution_tag = PyBool(managed),
                              !.distributor_forsale = PY_FALSE,
                              !.distributor_sold =
                                 PyBool(state.sale_type = SALE_TYPE_DISTRIBUTION),
                              !.assigned_distributor =
                                 IF managed THEN state.manager ELSE ABSENT]
        d3 == [d2 EXCEPT !.sale_type =
                 IF state.sale_type = SALE_TYPE_DIRECT THEN LABEL_DIRECT
                 ELSE IF state.sale_type = SALE_TYPE_DISTRIBUTION
                      THEN LABEL_DISTRIBUTION
                      ELSE ABSENT]
    IN IF Truthy(state.sold_at) THEN [d3 EXCEPT !.sold_at = state.sold_at] ELSE d3

\* the accounting sub-dict written with owner and manager crossed
WithAccounting_Crossed(data, state) ==
  [data EXCEPT !.accounting =
     [present |-> TRUE, owner |-> state.manager, manager |-> state.owner,
      status |-> state.status, sale_type |-> state.sale_type,
      sold_at |-> state.sold_at]]

\* accounting.update({...}) after setdefault("accounting", {})
WithAccounting(data, state) ==
  [data EXCEPT !.accounting =
     [present |-> TRUE, owner |-> state.owner, manager |-> state.manager,
      status |-> state.status, sale_type |-> state.sale_type,
      sold_at |-> state.sold_at]]

\* the tail of ensure_accounting and of update_account_state: the state is
\* written into the record and mirrored to the legacy fields
WriteState(data, state) == _sync_legacy_flags(WithAccounting(data, state), state)

\* the AccountState ensure_accounting builds from the record
StateFromRecord(data) ==
  [owner |-> PyOr(Get(data.accounting.owner), Get(data.owner)),
   manager |-> PyOr(PyOr(PyOr(Get(data.accounting.manager), Get(data.manager)),
                         Get(data.assigned_distributor)),
                    Get(data.owner)),
   status |-> PyOr(Get(data.accounting.status), Get(data.status)),
   sale_type |-> PyOr(Get(data.accounting.sale_type), Get(data.sale_type)),
   sold_at |-> PyOr(Get(data.accounting.sold_at), Get(data.sold_at))]

\* if state.status is None: state.status = agent_stock
DefaultStatus(state) ==
  IF state.status = NONE
  THEN [state EXCEPT !.status = ACCOUNT_STATUS_AGENT_STOCK] ELSE state

\* if not state.sale_type: take it from the record's legacy sale_type
LegacySaleType(state, legacy) ==
  IF Truthy(state.sale_type) THEN state
  ELSE IF legacy \in {SALE_TYPE_DIRECT, LABEL_DIRECT, "direct"}
       THEN [state EXCEPT !.sale_type = SALE_TYPE_DIRECT]
       ELSE IF legacy \in {SALE_TYPE_DISTRIBUTION, LABEL_DISTRIBUTION,
                           "distribution"}
            THEN [state EXCEPT !.sale_type = SALE_TYPE_DISTRIBUTION]
            ELSE state

\* if not state.status: take it from the record's legacy flags
LegacyStatus(state, data) ==
  IF Truthy(state.status) THEN state
  ELSE IF Truthy(Get(data.distributor_forsale))
       THEN [state EXCEPT !.status = ACCOUNT_STATUS_DISTRIBUTOR_STOCK]
       ELSE IF Get(data.forsale) \in {PY_FALSE, "false", "False"}
            THEN [state EXCEPT !.status = ACCOUNT_STATUS_SOLD]
            ELSE [state EXCEPT !.status = ACCOUNT_STATUS_AGENT_STOCK]

\* the AccountState that ensure_accounting computes and returns
ensure_accounting_state(data) ==
  ensure_defaults(
    LegacyStatus(
      LegacySaleType(DefaultStatus(ensure_defaults(StateFromRecord(data))),
                     Get(data.sale_type)),
      data))

\* the record as ensure_accounting leaves it
ensure_accounting(data) == WriteState(data, ensure_accounting_state(data))

\* keyword arguments of update_account_state; NONE is an argument not passed
NoArgs ==
  [owner |-> NONE, manager |-> NONE, status |-> NONE, sale_type |-> NONE,
   sold_at |-> NONE]

\* update_account_state with the owner and manager fallbacks crossed
ApplyArgs_Crossed(state, args) ==
  [owner |-> IF args.owner # NONE THEN args.owner ELSE state.manager,
   manager |-> IF args.manager # NONE THEN args.manager ELSE state.owner,
   status |-> IF args.status # NONE THEN args.status ELSE state.status,
   sale_type |-> IF args.sale_type # NONE THEN args.sale_type ELSE state.sale_type,
   sold_at |-> IF args.sold_at # NONE THEN args.sold_at ELSE state.sold_at]

\* update_account_state dropping the sale_type whenever a status is passed
ApplyArgs_StatusClearsSale(state, args) ==
  [owner |-> IF args.owner # NONE THEN args.owner ELSE state.owner,
   manager |-> IF args.manager # NONE THEN args.manager ELSE state.manager,
   status |-> IF args.status # NONE THEN args.status ELSE state.status,
   sale_type |-> IF args.sale_type # NONE THEN args.sale_type
                 ELSE IF args.status # NONE THEN NONE ELSE state.sale_type,
   sold_at |-> IF args.sold_at # NONE THEN args.sold_at ELSE state.sold_at]

ApplyArgs(state, args) ==
  [owner |-> IF args.owner # NONE THEN args.owner ELSE state.owner,
   manager |-> IF args.manager # NONE THEN args.manager ELSE state.manager,
   status |-> IF args.status # NONE THEN args.status ELSE state.status,
   sale_type |-> IF args.sale_type # NONE THEN args.sale_type ELSE state.sale_type,
   sold_at |-> IF args.sold_at # NONE THEN args.sold_at ELSE state.sold_at]

\* the AccountState that update_account_state returns
update_account_state_result(data, args) ==
  IF ~_is_inventory_record(data) THEN AccountState
  ELSE ensure_defaults(ApplyArgs(ensure_accounting_state(data), args))

\* the record as update_account_state leaves it
update_account_state(data, args) ==
  IF ~_is_inventory_record(data) THEN _normalise_roles(data)
  ELSE WriteState(ensure_accounting(data), update_account_state_result(data, args))

normalize_user_record(data) ==
  LET d == _normalise_roles(data)
  IN IF _is_inventory_record(d) THEN ensure_accounting(d)
     ELSE [d EXCEPT !.accounting = NoAccounting]

\* ---- numbers in ledger dicts ---------------------------------------------

\* a numeric field of a ledger dict: a number, None, a missing key, or text
\* that float() and int() reject
Num(n) == [t |-> "num", v |-> n]
NumNone == [t |-> "none", v |-> 0]
NumAbsent == [t |-> "absent", v |-> 0]
NumText == [t |-> "text", v |-> 0]

\* raw.get(key) is None
NumIsNone(x) == x.t \in {"none", "absent"}
NumTruthy(x) == (x.t = "num" /\ x.v # 0) \/ x.t = "text"
\* float(x or 0) / int(x or 0) raises ValueError
NumRaises(x) == x.t = "text"
\* the value of float(x or 0) / int(x or 0) when it does not raise
NumOrZero(x) == IF x.t = "num" THEN x.v ELSE 0
NumGet(x) == IF x.t = "absent" THEN NumNone ELSE x

\* round(a / q, 2) on cents, halves rounded up; 0.0 when q is 0
RoundDiv(a, q) ==
  IF q = 0 THEN 0
  ELSE LET n == IF q < 0 THEN 0 - a ELSE a
           d == IF q < 0 THEN 0 - q ELSE q
       IN (2 * n + d) \div (2 * d)

\* ---- LedgerEntry ---------------------------------------------------------

NoMetadata ==
  [legacy_admin |-> ABSENT, legacy_role |-> ABSENT, legacy_count |-> NumAbsent,
   legacy_revenue |-> NumAbsent, legacy_price |-> NumAbsent,
   legacy_user_id |-> ABSENT, legacy_direction |-> ABSENT]

\* a ledger dict with no key set; id 0 is a missing id
EmptyLedgerDict ==
  [id |-> 0, time |-> ABSENT, actor |-> ABSENT, actor_role |-> ABSENT,
   transaction_type |-> ABSENT, direction |-> ABSENT, amount |-> NumAbsent,
   quantity |-> NumAbsent, product |-> ABSENT, account_username |-> ABSENT,
   counterparty |-> ABSENT, sale_type |-> ABSENT, metadata |-> NoMetadata,
   admin |-> ABSENT, role |-> ABSENT, price |-> NumAbsent, count |-> NumAbsent,
   revenue |-> NumAbsent, agent |-> ABSENT, username |-> ABSENT,
   distributor |-> ABSENT, user_id |-> ABSENT]

_get_amount(raw) ==
  IF raw.amount.t # "absent"
  THEN IF NumRaises(raw.amount) THEN 0 ELSE NumOrZero(raw.amount)
  ELSE IF ~NumIsNone(raw.revenue) /\ ~NumRaises(raw.revenue)
       THEN NumOrZero(raw.revenue)
       ELSE IF NumRaises(raw.price) \/ NumRaises(raw.count) THEN 0
            ELSE LET price_val == NumOrZero(raw.price)
                     c == NumOrZero(raw.count)
                     count_val == IF c = 0 THEN 1 ELSE c
                 IN price_val * count_val

\* a variant that reads a quantity of 0 as 1
_get_quantity_ZeroAsOne(raw) ==
  LET q == IF raw.quantity.t # "absent" THEN raw.quantity
           ELSE IF raw.count.t # "absent" THEN raw.count ELSE Num(0)
  IN IF NumRaises(q) \/ NumOrZero(q) = 0 THEN 1 ELSE NumOrZero(q)

_get_quantity(raw) ==
  LET q == IF raw.quantity.t # "absent" THEN raw.quantity
           ELSE IF raw.count.t # "absent" THEN raw.count ELSE Num(0)
  IN IF NumRaises(q) THEN 0 ELSE NumOrZero(q)

_get_direction(raw) ==
  IF Get(raw.direction) \in {"in", "out"} THEN raw.direction
  ELSE IF Get(raw.transaction_type) = TRANSACTION_AGENT_PURCHASE THEN "out"
       ELSE "in"

_get_sale_type(raw) ==
  LET sale_type == Get(raw.sale_type)
  IN IF sale_type \in {SALE_TYPE_DIRECT, SALE_TYPE_DISTRIBUTION, NONE}
     THEN sale_type
     ELSE IF sale_type \in {LABEL_DIRECT, "direct"} THEN SALE_TYPE_DIRECT
     ELSE IF sale_type \in {LABEL_DISTRIBUTION, "distribution"}
          THEN SALE_TYPE_DISTRIBUTION
          ELSE NONE

SetDefault(old, value) == IF old = ABSENT THEN value ELSE old
NumSetDefault(old, value) == IF old.t = "absent" THEN value ELSE old

\* LedgerEntry.from_raw; clock is the current time and fresh an unused id
from_raw(raw, clock, fresh) ==
  LET md == raw.metadata
  IN [id |-> IF raw.id # 0 THEN raw.id ELSE fresh,
      time |-> PyOr(Get(raw.time), clock),
      actor |-> PyOr(PyOr(Get(raw.actor), Get(raw.admin)), ""),
      actor_role |-> PyOr(PyOr(Get(raw.actor_role), Get(raw.role)), ROLE_ADMIN),
      transaction_type |-> PyOr(Get(raw.transaction_type), TRANSACTION_LEGACY),
      direction |-> _get_direction(raw),
      amount |-> _get_amount(raw),
      quantity |-> _get_quantity(raw),
      product |-> Get(raw.product),
      account_username |-> PyOr(Get(raw.account_username), Get(raw.username)),
      counterparty |-> PyOr(PyOr(Get(raw.counterparty), Get(raw.agent)),
                            Get(raw.distributor)),
      sale_type |-> _get_sale_type(raw),
      metadata |->
        [legacy_admin |-> SetDefault(md.legacy_admin, Get(raw.admin)),
         legacy_role |-> SetDefault(md.legacy_role, Get(raw.role)),
         legacy_count |-> NumSetDefault(md.legacy_count, NumGet(raw.count)),
         legacy_revenue |-> NumSetDefault(md.legacy_revenue, NumGet(raw.revenue)),
         legacy_price |-> NumSetDefault(md.legacy_price, NumGet(raw.price)),
         legacy_user_id |-> SetDefault(md.legacy_user_id, Get(raw.user_id)),
         legacy_direction |-> SetDefault(md.legacy_direction, Get(raw.direction))]]

\* LedgerEntry.to_dict
to_dict(e) ==
  [EmptyLedgerDict EXCEPT
     !.id = e.id, !.time = e.time, !.actor = e.actor, !.actor_role = e.actor_role,
     !.transaction_type = e.transaction_type, !.direction = e.direction,
     !.amount = Num(e.amount), !.quantity = Num(e.quantity),
     !.product = e.product, !.account_username = e.account_username,
     !.counterparty = e.counterparty, !.sale_type = e.sale_type,
     !.metadata = e.metadata,
     !.admin = e.actor, !.role = e.actor_role,
     !.price = Num(RoundDiv(e.amount, e.quantity)),
     !.count = Num(e.quantity), !.revenue = Num(e.amount),
     !.agent = IF Truthy(e.counterparty)
               THEN IF e.actor_role = ROLE_ADMIN THEN e.counterparty
                    ELSE IF e.actor_role = ROLE_AGENT THEN e.actor ELSE ABSENT
               ELSE ABSENT]

\* keyword arguments of build_ledger_entry with their defaults
LedgerArgs ==
  [transaction_type |-> NONE, actor |-> NONE, actor_role |-> NONE, amount |-> 0,
   quantity |-> 1, product |-> NONE, account_username |-> NONE,
   counterparty |-> NONE, sale_type |-> NONE, direction |-> "in",
   occurred_at |-> NONE]

build_ledger_entry(kw, clock, fresh) ==
  to_dict([id |-> fresh,
           time |-> PyOr(kw.occurred_at, clock),
           actor |-> kw.actor,
           actor_role |-> kw.actor_role,
           transaction_type |-> kw.transaction_type,
           direction |-> kw.direction,
           amount |-> kw.amount,
           quantity |-> kw.quantity,
           product |-> kw.product,
           account_username |-> kw.account_username,
           counterparty |-> kw.counterparty,
           sale_type |-> kw.sale_type,
           metadata |-> NoMetadata])

\* record_transaction with the new entry put first instead of last
record_transaction_Prepend(records, kw, clock, fresh) ==
  <<build_ledger_entry(kw, clock, fresh)>> \o records

record_transaction(records, kw, clock, fresh) ==
  Append(records, build_ledger_entry(kw, clock, fresh))

normalize_ledger_records(records, clock, base) ==
  [i \in 1..Len(records) |-> to_dict(from_raw(records[i], clock, base + i))]

\* ---- bounds and inputs ---------------------------------------------------

MaxAccounts == 2
MaxClock == 2
MaxLedger == 5
MaxApplications == 1
MaxRequests == 1
MaxCount == 2
MaxBatch == 2

UsernamePool == <<"u1", "u2", "u3", "u4", "u5", "u6">>
\* the usernames gen_username_numeric can draw
Usernames == {UsernamePool[i] : i \in 1..MaxAccounts}
TimeStrings == <<"T1", "T2", "T3", "T4", "T5", "T6">>

Admins == {"admin"}
Agents == {"ag1"}
Names == Usernames \cup Agents \cup Admins
Products == {"p1"}
\* unit prices an application can carry, in cents
Prices == {250}
Counts == 0..MaxCount

\* load_products(): the product store, prices in cents
ProductPrice(product) == IF product = "p1" THEN 300 ELSE 0

\* sequences over S of length 1..n
RECURSIVE SeqsUpTo(_, _)
SeqsUpTo(S, n) ==
  IF n = 0 THEN {<<>>}
  ELSE LET shorter == SeqsUpTo(S, n - 1)
       IN shorter \cup {Append(q, x) : q \in shorter, x \in S}

NameLists == SeqsUpTo(Usernames, MaxBatch) \ {<<>>}

\* ---- state ---------------------------------------------------------------

VARIABLES
  users,                  \* the account store: username -> user dict
  ledger,                 \* the ledger file: a sequence of ledger dicts
  applications,           \* applications.json
  distribution_requests,  \* distribution_requests.json
  clock,                  \* index of the current time in TimeStrings
  nextId,                 \* ids handed out so far (uuid4 / os.urandom are fresh)
  response,               \* whether the last request reported success
  threads,                \* the requests in flight, each with its local snapshots
  db_lock,                \* db_utils.db_lock: 0 when free, else the thread holding it
  call                    \* the last call on a record in hand

storeVars == <<users, ledger, applications, distribution_requests, clock, nextId,
               response>>
vars == <<users, ledger, applications, distribution_requests, clock, nextId,
          response, threads, db_lock, call>>

Now == TimeStrings[clock]

\* records created by add_user for the operator and the agents
ActorRecord(is_admin, is_agent) ==
  [EmptyRecord EXCEPT !.is_admin = PyBool(is_admin), !.is_agent = PyBool(is_agent),
                      !.source = "add", !.product = "", !.created_at = "T1"]

InitialUsers ==
  [n \in Admins \cup Agents |->
     IF n \in Admins THEN ActorRecord(TRUE, FALSE) ELSE ActorRecord(FALSE, TRUE)]

\* login(): the session a user gets
SessionAdmin(us, u) == u \in DOMAIN us /\ Truthy(Get(us[u].is_admin))
SessionAgent(us, u) ==
  u \in DOMAIN us /\ ~Truthy(Get(us[u].is_admin)) /\ Truthy(Get(us[u].is_agent))
SessionDistributor(us, u) ==
  u \in DOMAIN us /\ ~Truthy(Get(us[u].is_admin))
    /\ Truthy(Get(us[u].is_distributor))

\* users.get(name, {}).get('accounting', {}).get(field)
Accounting(us, name, field) ==
  IF name \in DOMAIN us THEN Get(us[name].accounting[field]) ELSE NONE

\* ---- ledger store ---------------------------------------------------------

load_ledger(file, t, base) == normalize_ledger_records(file, t, base)

\* ids that load_ledger consumed for entries stored without one
IdsAfterLoad(file, base) ==
  IF \E i \in 1..Len(file) : file[i].id = 0 THEN base + Len(file) ELSE base

\* ---- agent sales ----------------------------------------------------------

\* the precondition of the agent's sale without the test of the status
AgentCanSell_AnyStatus(us, name, current) ==
  /\ name \in DOMAIN us
  /\ Accounting(us, name, "owner") = current

\* the precondition of mark_sold, batch_sold and agent_batch_action 'sold'
AgentCanSell(us, name, current) ==
  /\ name \in DOMAIN us
  /\ Accounting(us, name, "owner") = current
  /\ Accounting(us, name, "status") = ACCOUNT_STATUS_AGENT_STOCK

\* the agent's sale without the time of the sale
AgentSoldRecord_NoSoldAt(data, current, t) ==
  [update_account_state(data,
     [NoArgs EXCEPT !.status = ACCOUNT_STATUS_SOLD, !.sale_type = SALE_TYPE_DIRECT,
                    !.manager = current])
   EXCEPT !.sold_by = current]

\* update_account_state(..., status=sold, sale_type=direct, manager=current,
\* sold_at=now) and sold_by
AgentSoldRecord(data, current, t) ==
  [update_account_state(data,
     [NoArgs EXCEPT !.status = ACCOUNT_STATUS_SOLD, !.sale_type = SALE_TYPE_DIRECT,
                    !.manager = current, !.sold_at = t])
   EXCEPT !.sold_by = current]

AgentSaleEntry(us, name, current) ==
  [LedgerArgs EXCEPT !.transaction_type = TRANSACTION_AGENT_DIRECT_SALE,
                     !.actor = current, !.actor_role = ROLE_AGENT,
                     !.amount = us[name].price, !.quantity = 1,
                     !.product = GetOr(us[name].product, ""),
                     !.account_username = name, !.sale_type = SALE_TYPE_DIRECT]

mark_sold(current, name) ==
  /\ SessionAgent(users, current)
  /\ Len(ledger) < MaxLedger
  /\ IF AgentCanSell(users, name, current)
     THEN LET us == [users EXCEPT ![name] = AgentSoldRecord(@, current, Now)]
              base == IdsAfterLoad(ledger, nextId)
              records == load_ledger(ledger, Now, nextId)
          IN /\ users' = us
             /\ ledger' = record_transaction(records,
                             AgentSaleEntry(us, name, current), Now, base + 1)
             /\ nextId' = base + 1
             /\ response' = [ok |-> TRUE]
     ELSE /\ response' = [ok |-> FALSE]
          /\ UNCHANGED <<users, ledger, nextId>>
  /\ UNCHANGED <<applications, distribution_requests, clock>>

\* the loop of batch_sold / agent_batch_action 'sold' over the submitted names
RECURSIVE SellEach(_, _, _, _, _, _)
SellEach(us, records, names, current, t, fresh) ==
  IF names = <<>> THEN [users |-> us, records |-> records, fresh |-> fresh]
  ELSE LET name == Head(names)
       IN IF AgentCanSell(us, name, current)
          THEN LET us2 == [us EXCEPT ![name] = AgentSoldRecord(@, current, t)]
               IN SellEach(us2,
                           record_transaction(records,
                              AgentSaleEntry(us2, name, current), t, fresh + 1),
                           Tail(names), current, t, fresh + 1)
          ELSE SellEach(us, records, Tail(names), current, t, fresh)

batch_sold(current, names) ==
  /\ SessionAgent(users, current)
  /\ Len(ledger) + Len(names) <= MaxLedger
  /\ LET base == IdsAfterLoad(ledger, nextId)
         r == SellEach(users, load_ledger(ledger, Now, nextId), names, current,
                       Now, base)
         sold_any == r.fresh # base
     IN /\ users' = IF sold_any THEN r.users ELSE users
        /\ ledger' = IF sold_any THEN r.records ELSE ledger
        /\ nextId' = r.fresh
        /\ response' = [ok |-> TRUE]
  /\ UNCHANGED <<applications, distribution_requests, clock>>

\* agent_batch_action: 'enable' and 'disable' set a flag that is not part of
\* the account state; every action saves both stores
agent_batch_action(current, action, names) ==
  /\ SessionAgent(users, current)
  /\ Len(ledger) + Len(names) <= MaxLedger
  /\ LET base == IdsAfterLoad(ledger, nextId)
         records == load_ledger(ledger, Now, nextId)
         r == IF action = "sold"
              THEN SellEach(users, records, names, current, Now, base)
              ELSE [users |-> users, records |-> records, fresh |-> base]
     IN /\ users' = r.users
        /\ ledger' = r.records
        /\ nextId' = r.fresh
        /\ response' = [ok |-> TRUE]
  /\ UNCHANGED <<applications, distribution_requests, clock>>

\* ---- wholesale applications (operator -> agent) ---------------------------

apply_bulk(current, count, price, product) ==
  /\ SessionAgent(users, current)
  /\ Len(applications) < MaxApplications
  /\ applications' = Append(applications,
        [id |-> Len(applications) + 1, agent |-> current, count |-> count,
         price |-> price, product |-> product, status |-> "pending"])
  /\ response' = [ok |-> TRUE]
  /\ UNCHANGED <<users, ledger, distribution_requests, clock, nextId>>

\* the account _approve_application creates for each unit
NewAgentAccount(app_record, t) ==
  update_account_state(
    [EmptyRecord EXCEPT !.is_admin = PY_FALSE, !.source = "agent",
                        !.product = app_record.product, !.created_at = t,
                        !.price = app_record.price],
    [NoArgs EXCEPT !.owner = app_record.agent, !.manager = app_record.agent,
                   !.status = ACCOUNT_STATUS_AGENT_STOCK])

\* an approval that also reissues the accounts the agent already owns
ApprovedUsers_Reissues(us, app_record, unames, t) ==
  [n \in DOMAIN us \cup unames |->
     IF n \in unames \/ Get(us[n].owner) = app_record.agent
     THEN NewAgentAccount(app_record, t) ELSE us[n]]

\* the account store after _approve_application drew the usernames in unames
ApprovedUsers(us, app_record, unames, t) ==
  [n \in DOMAIN us \cup unames |->
     IF n \in unames THEN NewAgentAccount(app_record, t) ELSE us[n]]

\* _approve_application with the agent's entry left at the default direction
ApprovedLedger_AgentIn(file, app_record, admin, t, base) ==
  LET total_amount == app_record.price * app_record.count
      records == load_ledger(file, t, base)
      fresh == IdsAfterLoad(file, base)
      r1 == record_transaction(records,
              [LedgerArgs EXCEPT !.transaction_type = TRANSACTION_ADMIN_TO_AGENT,
                                 !.actor = admin, !.actor_role = ROLE_ADMIN,
                                 !.amount = total_amount,
                                 !.quantity = app_record.count,
                                 !.product = app_record.product,
                                 !.counterparty = app_record.agent],
              t, fresh + 1)
  IN record_transaction(r1,
       [LedgerArgs EXCEPT !.transaction_type = TRANSACTION_AGENT_PURCHASE,
                          !.actor = app_record.agent, !.actor_role = ROLE_AGENT,
                          !.amount = total_amount,
                          !.quantity = app_record.count,
                          !.product = app_record.product,
                          !.counterparty = admin],
       t, fresh + 2)

\* the ledger after _approve_application recorded the transfer
ApprovedLedger(file, app_record, admin, t, base) ==
  LET total_amount == app_record.price * app_record.count
      records == load_ledger(file, t, base)
      fresh == IdsAfterLoad(file, base)
      r1 == record_transaction(records,
              [LedgerArgs EXCEPT !.transaction_type = TRANSACTION_ADMIN_TO_AGENT,
                                 !.actor = admin, !.actor_role = ROLE_ADMIN,
                                 !.amount = total_amount,
                                 !.quantity = app_record.count,
                                 !.product = app_record.product,
                                 !.counterparty = app_record.agent],
              t, fresh + 1)
  IN record_transaction(r1,
       [LedgerArgs EXCEPT !.transaction_type = TRANSACTION_AGENT_PURCHASE,
                          !.actor = app_record.agent, !.actor_role = ROLE_AGENT,
                          !.amount = total_amount,
                          !.quantity = app_record.count,
                          !.product = app_record.product,
                          !.counterparty = admin,
                          !.direction = "out"],
       t, fresh + 2)

\* range(count) draws max(count, 0) usernames
UnitsOf(count) == IF count > 0 THEN count ELSE 0

approve_application(admin, app_id) ==
  /\ SessionAdmin(users, admin)
  /\ IF app_id \in 1..Len(applications) /\ applications[app_id].status = "pending"
     THEN LET app_record == applications[app_id]
          IN /\ Len(ledger) + 2 <= MaxLedger
             /\ \E unames \in SUBSET (Usernames \ DOMAIN users) :
                  /\ Cardinality(unames) = UnitsOf(app_record.count)
                  /\ users' = ApprovedUsers(users, app_record, unames, Now)
             /\ ledger' = ApprovedLedger(ledger, app_record, admin, Now, nextId)
             /\ nextId' = IdsAfterLoad(ledger, nextId) + 2
             /\ applications' = [applications EXCEPT ![app_id].status = "approved"]
             /\ response' = [ok |-> TRUE]
     ELSE /\ response' = [ok |-> FALSE]
          /\ UNCHANGED <<users, ledger, nextId, applications>>
  /\ UNCHANGED <<distribution_requests, clock>>

\* a rejection that does not look at the status
reject_application_AnyStatus(admin, app_id) ==
  /\ SessionAdmin(users, admin)
  /\ applications' =
       [i \in 1..Len(applications) |->
          IF i = app_id THEN [applications[i] EXCEPT !.status = "rejected"]
          ELSE applications[i]]
  /\ response' = [ok |-> TRUE]
  /\ UNCHANGED <<users, ledger, distribution_requests, clock, nextId>>

reject_application(admin, app_id) ==
  /\ SessionAdmin(users, admin)
  /\ applications' =
       [i \in 1..Len(applications) |->
          IF i = app_id /\ applications[i].status = "pending"
          THEN [applications[i] EXCEPT !.status = "rejected"]
          ELSE applications[i]]
  /\ response' = [ok |-> TRUE]
  /\ UNCHANGED <<users, ledger, distribution_requests, clock, nextId>>

\* ---- distributors ----------------------------------------------------------

assign_distributor(current, username) ==
  /\ SessionAgent(users, current)
  /\ IF /\ username \in DOMAIN users
        /\ Get(users[username].owner) = current
        /\ ~Truthy(Get(users[username].is_admin))
        /\ ~Truthy(Get(users[username].is_agent))
        /\ ~Truthy(Get(users[username].is_distributor))
     THEN /\ users' = [users EXCEPT ![username].is_distributor = PY_TRUE,
                                    ![username].distributor_owner = current,
                                    ![username].created_at = Now]
          /\ response' = [ok |-> TRUE]
     ELSE /\ response' = [ok |-> FALSE]
          /\ UNCHANGED users
  /\ UNCHANGED <<ledger, applications, distribution_requests, clock, nextId>>

distributor_stock_apply(current, quantity, product) ==
  /\ SessionDistributor(users, current)
  /\ Len(distribution_requests) < MaxRequests
  /\ distribution_requests' = Append(distribution_requests,
       [id |-> Len(distribution_requests) + 1, distributor |-> current,
        agent |-> Get(users[current].distributor_owner), product |-> product,
        quantity |-> quantity, status |-> "pending", assigned_accounts |-> {},
        approved_at |-> ABSENT, rejected_at |-> ABSENT])
  /\ response' = [ok |-> TRUE]
  /\ UNCHANGED <<users, ledger, applications, clock, nextId>>

\* the agent's stock, as approve_distribution_request lists it
available_accounts(us, current_agent) ==
  {u \in DOMAIN us :
     /\ Accounting(us, u, "owner") = current_agent
     /\ Accounting(us, u, "status") = ACCOUNT_STATUS_AGENT_STOCK}

\* the transfer leaving the agent as the manager
TransferredRecord_KeepManager(data, distributor, t) ==
  [update_account_state(data,
     [NoArgs EXCEPT !.owner = distributor,
                    !.status = ACCOUNT_STATUS_DISTRIBUTOR_STOCK])
   EXCEPT !.transferred_at = t]

TransferredRecord(data, distributor, t) ==
  [update_account_state(data,
     [NoArgs EXCEPT !.owner = distributor, !.manager = distributor,
                    !.status = ACCOUNT_STATUS_DISTRIBUTOR_STOCK])
   EXCEPT !.transferred_at = t]

\* approve_distribution_request recording the distributor's side for one unit
TransferLedger_OneUnit(file, req, current_agent, t, base) ==
  LET total_amount == ProductPrice(req.product) * req.quantity
      records == load_ledger(file, t, base)
      fresh == IdsAfterLoad(file, base)
      r1 == record_transaction(records,
              [LedgerArgs EXCEPT !.transaction_type = TRANSACTION_AGENT_TO_DISTRIBUTOR,
                                 !.actor = current_agent, !.actor_role = ROLE_AGENT,
                                 !.amount = total_amount,
                                 !.quantity = req.quantity,
                                 !.product = req.product,
                                 !.counterparty = req.distributor],
              t, fresh + 1)
  IN record_transaction(r1,
       [LedgerArgs EXCEPT !.transaction_type = TRANSACTION_AGENT_TO_DISTRIBUTOR,
                          !.actor = req.distributor, !.actor_role = ROLE_DISTRIBUTOR,
                          !.amount = ProductPrice(req.product),
                          !.product = req.product,
                          !.counterparty = current_agent,
                          !.direction = "out"],
       t, fresh + 2)

TransferLedger(file, req, current_agent, t, base) ==
  LET total_amount == ProductPrice(req.product) * req.quantity
      records == load_ledger(file, t, base)
      fresh == IdsAfterLoad(file, base)
      r1 == record_transaction(records,
              [LedgerArgs EXCEPT !.transaction_type = TRANSACTION_AGENT_TO_DISTRIBUTOR,
                                 !.actor = current_agent, !.actor_role = ROLE_AGENT,
                                 !.amount = total_amount,
                                 !.quantity = req.quantity,
                                 !.product = req.product,
                                 !.counterparty = req.distributor],
              t, fresh + 1)
  IN record_transaction(r1,
       [LedgerArgs EXCEPT !.transaction_type = TRANSACTION_AGENT_TO_DISTRIBUTOR,
                          !.actor = req.distributor, !.actor_role = ROLE_DISTRIBUTOR,
                          !.amount = total_amount,
                          !.quantity = req.quantity,
                          !.product = req.product,
                          !.counterparty = current_agent,
                          !.direction = "out"],
       t, fresh + 2)

\* an approval that hands over what stock there is
approve_distribution_request_AnyStock(current_agent, request_id) ==
  /\ SessionAgent(users, current_agent)
  /\ IF /\ request_id \in 1..Len(distribution_requests)
        /\ distribution_requests[request_id].agent = current_agent
        /\ distribution_requests[request_id].status = "pending"
     THEN LET req == distribution_requests[request_id]
          IN /\ Len(ledger) + 2 <= MaxLedger
             /\ \E selected \in SUBSET available_accounts(users, current_agent) :
                  /\ \/ Cardinality(selected) = req.quantity
                     \/ /\ selected = available_accounts(users, current_agent)
                        /\ Cardinality(selected) < req.quantity
                  /\ users' = [n \in DOMAIN users |->
                                 IF n \in selected
                                 THEN TransferredRecord(users[n], req.distributor, Now)
                                 ELSE users[n]]
                  /\ distribution_requests' =
                       [distribution_requests EXCEPT
                          ![request_id].status = "approved",
                          ![request_id].approved_at = Now,
                          ![request_id].assigned_accounts = selected]
             /\ ledger' = TransferLedger(ledger, req, current_agent, Now, nextId)
             /\ nextId' = IdsAfterLoad(ledger, nextId) + 2
             /\ response' = [ok |-> TRUE]
     ELSE /\ response' = [ok |-> FALSE]
          /\ UNCHANGED <<users, ledger, nextId, distribution_requests>>
  /\ UNCHANGED <<applications, clock>>

approve_distribution_request(current_agent, request_id) ==
  /\ SessionAgent(users, current_agent)
  /\ IF /\ request_id \in 1..Len(distribution_requests)
        /\ distribution_requests[request_id].agent = current_agent
        /\ distribution_requests[request_id].status = "pending"
        /\ Cardinality(available_accounts(users, current_agent))
             >= distribution_requests[request_id].quantity
     THEN LET req == distribution_requests[request_id]
          IN /\ Len(ledger) + 2 <= MaxLedger
             /\ \E selected \in SUBSET available_accounts(users, current_agent) :
                  /\ Cardinality(selected) = req.quantity
                  /\ users' = [n \in DOMAIN users |->
                                 IF n \in selected
                                 THEN TransferredRecord(users[n], req.distributor, Now)
                                 ELSE users[n]]
                  /\ distribution_requests' =
                       [distribution_requests EXCEPT
                          ![request_id].status = "approved",
                          ![request_id].approved_at = Now,
                          ![request_id].assigned_accounts = selected]
             /\ ledger' = TransferLedger(ledger, req, current_agent, Now, nextId)
             /\ nextId' = IdsAfterLoad(ledger, nextId) + 2
             /\ response' = [ok |-> TRUE]
     ELSE /\ response' = [ok |-> FALSE]
          /\ UNCHANGED <<users, ledger, nextId, distribution_requests>>
  /\ UNCHANGED <<applications, clock>>

reject_distribution_request(current_agent, request_id) ==
  /\ SessionAgent(users, current_agent)
  /\ IF /\ request_id \in 1..Len(distribution_requests)
        /\ distribution_requests[request_id].agent = current_agent
        /\ distribution_requests[request_id].status = "pending"
     THEN /\ distribution_requests' =
               [distribution_requests EXCEPT ![request_id].status = "rejected",
                                             ![request_id].rejected_at = Now]
          /\ response' = [ok |-> TRUE]
     ELSE /\ response' = [ok |-> FALSE]
          /\ UNCHANGED distribution_requests
  /\ UNCHANGED <<users, ledger, applications, clock, nextId>>

\* ---- distributor sales -----------------------------------------------------

DistributorCanSell(us, username, current) ==
  /\ Accounting(us, username, "owner") = current
  /\ Accounting(us, username, "status") = ACCOUNT_STATUS_DISTRIBUTOR_STOCK

DistributorSoldRecord(data, current, t) ==
  update_account_state(data,
    [NoArgs EXCEPT !.owner = current, !.manager = current,
                   !.status = ACCOUNT_STATUS_SOLD,
                   !.sale_type = SALE_TYPE_DISTRIBUTION, !.sold_at = t])

\* distributor_mark_sold recording the sale without the account
DistributorSaleEntry_NoAccount(us, username, current) ==
  [LedgerArgs EXCEPT !.transaction_type = TRANSACTION_DISTRIBUTOR_SALE,
                     !.actor = current, !.actor_role = ROLE_DISTRIBUTOR,
                     !.amount = us[username].price, !.quantity = 1,
                     !.product = GetOr(us[username].product, "unknown_product"),
                     !.sale_type = SALE_TYPE_DISTRIBUTION]

DistributorSaleEntry(us, username, current) ==
  [LedgerArgs EXCEPT !.transaction_type = TRANSACTION_DISTRIBUTOR_SALE,
                     !.actor = current, !.actor_role = ROLE_DISTRIBUTOR,
                     !.amount = us[username].price, !.quantity = 1,
                     !.product = GetOr(us[username].product, "unknown_product"),
                     !.account_username = username,
                     !.sale_type = SALE_TYPE_DISTRIBUTION]

distributor_mark_sold(current, username) ==
  /\ SessionDistributor(users, current)
  /\ Len(ledger) < MaxLedger
  /\ IF username \in DOMAIN users
     THEN /\ IF DistributorCanSell(users, username, current)
             THEN LET us == [users EXCEPT
                                ![username] = DistributorSoldRecord(@, current, Now)]
                      base == IdsAfterLoad(ledger, nextId)
                      records == load_ledger(ledger, Now, nextId)
                  IN /\ users' = us
                     /\ ledger' = record_transaction(records,
                                     DistributorSaleEntry(us, username, current),
                                     Now, base + 1)
                     /\ nextId' = base + 1
             ELSE UNCHANGED <<users, ledger, nextId>>
          /\ response' = [ok |-> TRUE]
     ELSE /\ response' = [ok |-> FALSE]
          /\ UNCHANGED <<users, ledger, nextId>>
  /\ UNCHANGED <<applications, distribution_requests, clock>>

DistributorCanUnsell(us, username, current) ==
  /\ username \in DOMAIN us
  /\ Accounting(us, username, "owner") = current
  /\ Accounting(us, username, "status") = ACCOUNT_STATUS_SOLD
  /\ Accounting(us, username, "sale_type") = SALE_TYPE_DISTRIBUTION

\* distributor_mark_unsold returning the account to the agent's stock status
UnsoldRecord_ToAgentStock(data, current) ==
  update_account_state(data,
    [NoArgs EXCEPT !.owner = current, !.manager = current,
                   !.status = ACCOUNT_STATUS_AGENT_STOCK])

\* update_account_state(..., status=distributor_stock, sale_type=None, sold_at=None)
UnsoldRecord(data, current) ==
  update_account_state(data,
    [NoArgs EXCEPT !.owner = current, !.manager = current,
                   !.status = ACCOUNT_STATUS_DISTRIBUTOR_STOCK])

\* a reversal that also takes the account's sale entries out of the ledger
distributor_mark_unsold_Retracts(current, username) ==
  /\ SessionDistributor(users, current)
  /\ IF DistributorCanUnsell(users, username, current)
     THEN /\ users' = [users EXCEPT ![username] = UnsoldRecord(@, current)]
          /\ ledger' = SelectSeq(ledger,
                LAMBDA r : ~( /\ Get(r.transaction_type) = TRANSACTION_DISTRIBUTOR_SALE
                              /\ Get(r.account_username) = username ))
          /\ response' = [ok |-> TRUE]
     ELSE /\ response' = [ok |-> FALSE]
          /\ UNCHANGED <<users, ledger>>
  /\ UNCHANGED <<applications, distribution_requests, clock, nextId>>

distributor_mark_unsold(current, username) ==
  /\ SessionDistributor(users, current)
  /\ IF DistributorCanUnsell(users, username, current)
     THEN /\ users' = [users EXCEPT ![username] = UnsoldRecord(@, current)]
          /\ response' = [ok |-> TRUE]
     ELSE /\ response' = [ok |-> FALSE]
          /\ UNCHANGED users
  /\ UNCHANGED <<ledger, applications, distribution_requests, clock, nextId>>

\* ---- post-sale assignment ---------------------------------------------------

\* the checks assign_accounts makes on one submitted username
\* the test of assign_accounts without the check of the current manager
AssignableTo_AnyManager(us, username, current_user, distributor_username) ==
  /\ username \in DOMAIN us
  /\ Accounting(us, username, "owner") = current_user
  /\ Accounting(us, username, "status") = ACCOUNT_STATUS_SOLD
  /\ Accounting(us, username, "sale_type") \in {SALE_TYPE_DIRECT, NONE}

AssignableTo(us, username, current_user, distributor_username) ==
  /\ username \in DOMAIN us
  /\ Accounting(us, username, "owner") = current_user
  /\ Accounting(us, username, "status") = ACCOUNT_STATUS_SOLD
  /\ Accounting(us, username, "sale_type") \in {SALE_TYPE_DIRECT, NONE}
  /\ ~( /\ Truthy(Accounting(us, username, "manager"))
        /\ Accounting(us, username, "manager")
             \notin {current_user, distributor_username} )

\* a hand-off that also passes the ownership to the distributor
AssignedRecord_WithOwner(data, distributor_username, t) ==
  [update_account_state(data,
     [NoArgs EXCEPT !.owner = distributor_username,
                    !.manager = distributor_username,
                    !.sale_type = PyOr(Get(data.accounting.sale_type),
                                       SALE_TYPE_DIRECT)])
   EXCEPT !.assigned_at = t]

AssignedRecord(data, distributor_username, t) ==
  [update_account_state(data,
     [NoArgs EXCEPT !.manager = distributor_username,
                    !.sale_type = PyOr(Get(data.accounting.sale_type),
                                       SALE_TYPE_DIRECT)])
   EXCEPT !.assigned_at = t]

\* a variant that gives up at the first invalid username
RECURSIVE AssignEach_StopAtInvalid(_, _, _, _, _, _)
AssignEach_StopAtInvalid(us, names, current_user, distributor_username, t, assigned_count) ==
  IF names = <<>>
  THEN [users |-> us, assigned_count |-> assigned_count, invalid_accounts |-> <<>>]
  ELSE IF AssignableTo(us, Head(names), current_user, distributor_username)
       THEN AssignEach_StopAtInvalid(
              [us EXCEPT ![Head(names)] = AssignedRecord(@, distributor_username, t)],
              Tail(names), current_user, distributor_username, t,
              assigned_count + 1)
       ELSE [users |-> us, assigned_count |-> assigned_count,
             invalid_accounts |-> <<Head(names)>>]

\* the loop over the submitted usernames: the store, the count of assigned
\* items and the usernames reported in invalid_accounts, in order
RECURSIVE AssignEach(_, _, _, _, _, _)
AssignEach(us, names, current_user, distributor_username, t, assigned_count) ==
  IF names = <<>>
  THEN [users |-> us, assigned_count |-> assigned_count, invalid_accounts |-> <<>>]
  ELSE IF AssignableTo(us, Head(names), current_user, distributor_username)
       THEN AssignEach(
              [us EXCEPT ![Head(names)] = AssignedRecord(@, distributor_username, t)],
              Tail(names), current_user, distributor_username, t,
              assigned_count + 1)
       ELSE [AssignEach(us, Tail(names), current_user, distributor_username, t,
                        assigned_count)
             EXCEPT !.invalid_accounts = <<Head(names)>> \o @]

ValidDistributor(us, distributor_username, current_user) ==
  /\ distributor_username \in DOMAIN us
  /\ Truthy(Get(us[distributor_username].is_distributor))
  /\ Get(us[distributor_username].distributor_owner) = current_user

\* what a call with a valid distributor saves and answers: the store is saved
\* only when an item was assigned
assign_accounts_result(us, names, current_user, distributor_username, t) ==
  LET r == AssignEach(us, names, current_user, distributor_username, t, 0)
  IN [users |-> IF r.assigned_count > 0 THEN r.users ELSE us,
      response |-> [success |-> TRUE, assigned_count |-> r.assigned_count,
                    invalid_accounts |-> r.invalid_accounts]]

assign_accounts(current_user, names, distributor_username) ==
  /\ SessionAgent(users, current_user)
  /\ IF ValidDistributor(users, distributor_username, current_user)
     THEN /\ users' = assign_accounts_result(users, names, current_user,
                                             distributor_username, Now).users
          /\ response' = [ok |-> TRUE]
     ELSE /\ response' = [ok |-> FALSE]
          /\ UNCHANGED users
  /\ UNCHANGED <<ledger, applications, distribution_requests, clock, nextId>>

\* ---- time -------------------------------------------------------------------

Tick ==
  /\ clock < MaxClock
  /\ clock' = clock + 1
  /\ UNCHANGED <<users, ledger, applications, distribution_requests, nextId,
                 response>>

\* ---- sold_at backfill -------------------------------------------------------

\* position of a timestamp in time order; "" and None sort first
TimeIndex(t) ==
  IF \E i \in 1..Len(TimeStrings) : TimeStrings[i] = t
  THEN CHOOSE i \in 1..Len(TimeStrings) : TimeStrings[i] = t
  ELSE 0

\* the agent ledger records backfill_sold_at reads
BackfillRecords(records) ==
  SelectSeq(records,
    LAMBDA r : /\ Get(r.role) = ROLE_AGENT
               /\ r.count.t = "num" /\ r.count.v > 0
               /\ Truthy(Get(r.admin)) /\ Truthy(Get(r.time)))

\* the (agent, product) buckets
BackfillKeys(records) ==
  {<<records[i].admin, GetOr(records[i].product, "")>> : i \in 1..Len(records)}

\* how many sale times of bucket key lie at time index ti
RECURSIVE TimesAt(_, _, _)
TimesAt(records, key, ti) ==
  IF records = <<>> THEN 0
  ELSE LET r == Head(records)
           here == IF /\ <<r.admin, GetOr(r.product, "")>> = key
                      /\ TimeIndex(r.time) = ti
                   THEN r.count.v ELSE 0
       IN here + TimesAt(Tail(records), key, ti)

\* the candidates without the test of sold_at
BackfillCandidates_AnySoldAt(us, key) ==
  {n \in DOMAIN us :
     /\ Get(us[n].owner) = key[1]
     /\ ~Truthy(GetOr(us[n].forsale, PY_FALSE))
     /\ (key[2] = "" \/ GetOr(us[n].product, "") = key[2])}

BackfillCandidates(us, key) ==
  {n \in DOMAIN us :
     /\ Get(us[n].owner) = key[1]
     /\ ~Truthy(GetOr(us[n].forsale, PY_FALSE))
     /\ ~Truthy(Get(us[n].sold_at))
     /\ (key[2] = "" \/ GetOr(us[n].product, "") = key[2])}

\* candidates that sort first by created_at (ties keep the store's order,
\* which is not modelled: any of them may come first)
FirstCandidates(us, cands) ==
  {n \in cands :
     \A m \in cands : TimeIndex(PyOr(Get(us[n].created_at), ""))
                        <= TimeIndex(PyOr(Get(us[m].created_at), ""))}

\* the stores bucket key can leave: times from index ti on, left of them at ti
RECURSIVE BackfillBucket(_, _, _, _, _)
BackfillBucket(us, records, key, ti, left) ==
  IF ti > Len(TimeStrings) \/ BackfillCandidates(us, key) = {} THEN {us}
  ELSE IF left = 0
       THEN IF ti = Len(TimeStrings) THEN {us}
            ELSE BackfillBucket(us, records, key, ti + 1,
                                TimesAt(records, key, ti + 1))
       ELSE UNION {BackfillBucket(
                     [us EXCEPT ![n].sold_at = TimeStrings[ti],
                                ![n].sold_by = key[1]],
                     records, key, ti, left - 1)
                   : n \in FirstCandidates(us, BackfillCandidates(us, key))}

\* the stores backfill_sold_at can leave after the buckets in keys
RECURSIVE BackfillAll(_, _, _)
BackfillAll(stores, records, keys) ==
  IF keys = {} THEN stores
  ELSE UNION {BackfillAll(
                UNION {BackfillBucket(us, records, key, 1, TimesAt(records, key, 1))
                       : us \in stores},
                records, keys \ {key})
              : key \in keys}

backfill_sold_at(admin) ==
  /\ SessionAdmin(users, admin)
  /\ LET records == BackfillRecords(load_ledger(ledger, Now, nextId))
     IN users' \in BackfillAll({users}, records, BackfillKeys(records))
  /\ response' = [ok |-> TRUE]
  /\ UNCHANGED <<ledger, applications, distribution_requests, clock, nextId>>

\* ---- the sequential system --------------------------------------------------

MaxThreads == 2
Threads == 1..MaxThreads

\* a thread that serves no request
IdleThread ==
  [pc |-> "idle", kind |-> "", current |-> "", name |-> "", users |-> <<>>,
   records |-> <<>>, entry |-> 0, ok |-> FALSE, save_failed |-> FALSE]

\* no call made yet on the record data; op names the function called last
NoCall(data) ==
  [count |-> 0, op |-> "", args |-> NoArgs, before |-> data, data |-> data,
   returned |-> AccountState, returned_before |-> AccountState]

\* requests are served one at a time, each handler from start to end
Sequential ==
  /\ threads = [t \in Threads |-> IdleThread]
  /\ db_lock = 0
  /\ call = NoCall(EmptyRecord)

Quiet == UNCHANGED <<threads, db_lock, call>>

Init ==
  /\ users = InitialUsers
  /\ ledger = <<>>
  /\ applications = <<>>
  /\ distribution_requests = <<>>
  /\ clock = 1
  /\ nextId = 0
  /\ response = [ok |-> TRUE]
  /\ Sequential

Next ==
  \/ Tick /\ Quiet
  \/ \E a \in Agents, c \in Counts, p \in Prices, pr \in Products :
       apply_bulk(a, c, p, pr) /\ Quiet
  \/ \E ad \in Admins, i \in 1..MaxApplications :
       approve_application(ad, i) /\ Quiet
  \/ \E ad \in Admins, i \in 1..MaxApplications :
       reject_application(ad, i) /\ Quiet
  \/ \E a \in Agents, n \in Names : mark_sold(a, n) /\ Quiet
  \/ \E a \in Agents, ns \in NameLists : batch_sold(a, ns) /\ Quiet
  \/ \E a \in Agents, act \in {"sold", "enable"}, ns \in NameLists :
       agent_batch_action(a, act, ns) /\ Quiet
  \/ \E a \in Agents, n \in Names : assign_distributor(a, n) /\ Quiet
  \/ \E d \in Names, q \in 1..MaxCount, pr \in Products :
       distributor_stock_apply(d, q, pr) /\ Quiet
  \/ \E a \in Agents, i \in 1..MaxRequests :
       approve_distribution_request(a, i) /\ Quiet
  \/ \E a \in Agents, i \in 1..MaxRequests :
       reject_distribution_request(a, i) /\ Quiet
  \/ \E d \in Names, n \in Names : distributor_mark_sold(d, n) /\ Quiet
  \/ \E d \in Names, n \in Names : distributor_mark_unsold(d, n) /\ Quiet
  \/ \E a \in Agents, ns \in NameLists, d \in Names :
       assign_accounts(a, ns, d) /\ Quiet
  \/ \E ad \in Admins : backfill_sold_at(ad) /\ Quiet

Spec == Init /\ [][Next]_vars

\* ---- ledger views -----------------------------------------------------------

\* float(r.get('amount', r.get('revenue', 0)) or 0)
RecordAmount(r) ==
  IF r.amount.t # "absent" THEN NumOrZero(r.amount) ELSE NumOrZero(r.revenue)

RECURSIVE SumAmounts(_)
SumAmounts(records) ==
  IF records = <<>> THEN 0
  ELSE RecordAmount(Head(records)) + SumAmounts(Tail(records))

\* ledger_view: the operator's total revenue
ledger_view(file, t, base) ==
  SumAmounts(SelectSeq(load_ledger(file, t, base),
    LAMBDA r : /\ PyOr(Get(r.actor_role), Get(r.role)) = ROLE_ADMIN
               /\ GetOr(r.direction, "in") = "in"))

\* agent_ledger: the total revenue of the agent or distributor current_user
agent_ledger(file, current_user, t, base) ==
  SumAmounts(SelectSeq(load_ledger(file, t, base),
    LAMBDA r : /\ PyOr(Get(r.actor), Get(r.admin)) = current_user
               /\ PyOr(Get(r.actor_role), Get(r.role)) \in {ROLE_AGENT, ROLE_DISTRIBUTOR}
               /\ GetOr(r.direction, "in") = "in"))

\* ---- properties of the sequential system -------------------------------------

InventoryAccounts(us) == {n \in DOMAIN us : us[n].accounting.present}

IsSold(us, n) == Accounting(us, n, "status") = ACCOUNT_STATUS_SOLD

SoldAs(us, n, sale_type) ==
  n \in InventoryAccounts(us) /\ IsSold(us, n)
    /\ Accounting(us, n, "sale_type") = sale_type

\* an account that was sold by its distributor and marked unsold again
Reverted(us, n) ==
  /\ n \in InventoryAccounts(us)
  /\ Accounting(us, n, "status") = ACCOUNT_STATUS_DISTRIBUTOR_STOCK
  /\ Truthy(Accounting(us, n, "sold_at"))

\* C1: in every reachable state an inventory account's canonical sold_at is
\* set if and only if its status is sold, and an account that is not sold
\* carries no sale_type (mark-unsold clears both).
C1_SoldAtIffSold ==
  \A n \in InventoryAccounts(users) :
    /\ Truthy(Accounting(users, n, "sold_at")) <=> IsSold(users, n)
    /\ ~IsSold(users, n) => ~Truthy(Accounting(users, n, "sale_type"))

NewlySold == {n \in InventoryAccounts(users') : IsSold(users', n) /\ ~IsSold(users, n)}

\* the positions of the entries a step appends
Appended == (Len(ledger) + 1)..Len(ledger')

IsSaleEntry(e, n, seller) ==
  /\ Get(e.account_username) = n
  /\ Get(e.actor) = seller
  /\ Get(e.transaction_type) \in
       {TRANSACTION_AGENT_DIRECT_SALE, TRANSACTION_DISTRIBUTOR_SALE}

HasSaleEntry(us, file, n) ==
  \E i \in 1..Len(file) : IsSaleEntry(file[i], n, Accounting(us, n, "owner"))

MirroredPair(e1, e2, receiver, payer, amount, quantity) ==
  /\ e1.amount = Num(amount) /\ e2.amount = Num(amount)
  /\ e1.quantity = Num(quantity) /\ e2.quantity = Num(quantity)
  /\ e1.actor = receiver /\ e1.direction = "in" /\ e1.counterparty = payer
  /\ e2.actor = payer /\ e2.direction = "out" /\ e2.counterparty = receiver

\* the applications a step approves
NewlyApproved(before, after) ==
  {i \in 1..Len(before) :
     before[i].status = "pending" /\ after[i].status = "approved"}

\* C6: approving a wholesale of N units at price P appends exactly two
\* entries of amount N*P and quantity N, the operator's with direction in and
\* the agent as counterparty, the agent's with direction out and the operator
\* as counterparty; approving a distributor's stock request appends exactly
\* two entries of equal amount and quantity, the agent's in, the distributor's out.
C6_PairedTransfer ==
  [][/\ \A i \in NewlyApproved(applications, applications') :
          /\ Len(ledger') = Len(ledger) + 2
          /\ \E admin \in Admins :
               MirroredPair(ledger'[Len(ledger) + 1], ledger'[Len(ledger) + 2],
                            admin, applications[i].agent,
                            applications[i].count * applications[i].price,
                            applications[i].count)
     /\ \A i \in NewlyApproved(distribution_requests, distribution_requests') :
          /\ Len(ledger') = Len(ledger) + 2
          /\ MirroredPair(ledger'[Len(ledger) + 1], ledger'[Len(ledger) + 2],
                          distribution_requests[i].agent,
                          distribution_requests[i].distributor,
                          distribution_requests[i].quantity
                            * ProductPrice(distribution_requests[i].product),
                          distribution_requests[i].quantity)
    ]_storeVars

C6_Witness ==
  /\ \E i \in 1..Len(applications) :
       applications[i].status = "approved" /\ applications[i].count = MaxCount
  /\ \E i \in 1..Len(distribution_requests) :
       distribution_requests[i].status = "approved"
         /\ distribution_requests[i].quantity = MaxCount
  /\ Len(ledger) >= 4

\* C7: approving a wholesale of N units at price P raises the operator's
\* revenue view by exactly N*P and leaves the agent's revenue view unchanged.
C7_NoDoubleCount ==
  [][\A i \in NewlyApproved(applications, applications') :
       /\ ledger_view(ledger', Now, nextId')
            = ledger_view(ledger, Now, nextId)
                + applications[i].count * applications[i].price
       /\ agent_ledger(ledger', applications[i].agent, Now, nextId')
            = agent_ledger(ledger, applications[i].agent, Now, nextId)
    ]_storeVars

C7_Witness ==
  /\ \E i \in 1..Len(applications) :
       /\ applications[i].status = "approved"
       /\ applications[i].count * applications[i].price > 0
       /\ ledger_view(ledger, Now, nextId)
            = applications[i].count * applications[i].price
       /\ agent_ledger(ledger, applications[i].agent, Now, nextId) = 0
  /\ \E i \in 1..Len(ledger) :
       ledger[i].transaction_type = TRANSACTION_AGENT_PURCHASE
         /\ ledger[i].direction = "out"

SameEntry(e1, e2) ==
  /\ e1.id = e2.id
  /\ e1.actor = e2.actor
  /\ e1.amount = e2.amount
  /\ e1.quantity = e2.quantity
  /\ e1.direction = e2.direction

RaceAgents == {"ag1", "ag2"}

RaceApplication(agent, count) ==
  [id |-> 1, agent |-> agent, count |-> count, price |-> 250, product |-> "p1",
   status |-> "pending"]

RaceRequest ==
  [id |-> 1, distributor |-> "u4", agent |-> "ag1", product |-> "p1",
   quantity |-> 1, status |-> "pending", assigned_accounts |-> {},
   approved_at |-> ABSENT, rejected_at |-> ABSENT]

\* the store after two wholesale approvals (u1, u3, u4 for ag1; u2 for ag2),
\* the promotion of u4 to a distributor of ag1 and the transfer of u3 to u4
RaceUsers ==
  LET actors == [n \in Admins \cup RaceAgents |->
                   IF n \in Admins THEN ActorRecord(TRUE, FALSE)
                   ELSE ActorRecord(FALSE, TRUE)]
      bought == ApprovedUsers(
                  ApprovedUsers(actors, RaceApplication("ag1", 3),
                                {"u1", "u3", "u4"}, "T1"),
                  RaceApplication("ag2", 1), {"u2"}, "T1")
  IN [bought EXCEPT !["u4"].is_distributor = PY_TRUE,
                    !["u4"].distributor_owner = "ag1",
                    !["u3"] = TransferredRecord(@, "u4", "T1")]

\* the ledger of those three approvals
RaceLedger ==
  TransferLedger(
    ApprovedLedger(
      ApprovedLedger(<<>>, RaceApplication("ag1", 3), "admin", "T1", 0),
      RaceApplication("ag2", 1), "admin", "T1", 2),
    RaceRequest, "ag1", "T1", 4)

\* the sale requests that arrive
RaceRequests ==
  {[kind |-> "mark_sold", current |-> "ag1", name |-> "u1"],
   [kind |-> "mark_sold", current |-> "ag2", name |-> "u2"],
   [kind |-> "distributor_mark_sold", current |-> "u4", name |-> "u3"]}

InitRace ==
  /\ users = RaceUsers
  /\ ledger = RaceLedger
  /\ applications = <<>>
  /\ distribution_requests = <<>>
  /\ clock = 1
  /\ nextId = Len(RaceLedger)
  /\ response = [ok |-> TRUE]
  /\ threads = [t \in Threads |-> IdleThread]
  /\ db_lock = 0
  /\ call = NoCall(EmptyRecord)

RaceQuiet == UNCHANGED <<applications, distribution_requests, clock, response, call>>

\* a request reaches its handler in thread t
start_request(t, req) ==
  /\ threads[t].pc = "idle"
  /\ IF req.kind = "mark_sold" THEN SessionAgent(users, req.current)
     ELSE SessionDistributor(users, req.current)
  /\ threads' = [threads EXCEPT ![t] =
       [@ EXCEPT !.pc = "load_users", !.kind = req.kind,
                 !.current = req.current, !.name = req.name]]
  /\ UNCHANGED <<users, ledger, nextId, db_lock>>

\* the handler's check on its own copy of the store
ThreadCanSell(us, th) ==
  IF th.kind = "mark_sold" THEN AgentCanSell(us, th.name, th.current)
  ELSE th.name \in DOMAIN us /\ DistributorCanSell(us, th.name, th.current)

ThreadSoldRecord(data, th, t) ==
  IF th.kind = "mark_sold" THEN AgentSoldRecord(data, th.current, t)
  ELSE DistributorSoldRecord(data, th.current, t)

ThreadSaleEntry(us, th) ==
  IF th.kind = "mark_sold" THEN AgentSaleEntry(us, th.name, th.current)
  ELSE DistributorSaleEntry(us, th.name, th.current)

\* users = load_users(), taken without db_lock, then the check and the update
\* of the thread's own copy
thread_load_users(t) ==
  /\ threads[t].pc = "load_users"
  /\ threads' = [threads EXCEPT ![t] =
       IF ThreadCanSell(users, @)
       THEN [@ EXCEPT !.pc = "save_users",
                      !.users = [users EXCEPT
                                   ![threads[t].name] =
                                      ThreadSoldRecord(@, threads[t], Now)]]
       ELSE [@ EXCEPT !.pc = "done",
                      !.ok = (threads[t].kind = "distributor_mark_sold"
                                /\ threads[t].name \in DOMAIN users)]]
  /\ UNCHANGED <<users, ledger, nextId, db_lock>>

\* save_users: with db_lock
thread_acquire_db_lock(t) ==
  /\ threads[t].pc = "save_users"
  /\ db_lock = 0
  /\ db_lock' = t
  /\ threads' = [threads EXCEPT ![t].pc = "write_users"]
  /\ UNCHANGED <<users, ledger, nextId>>

\* save_users: the whole store is replaced by the thread's copy, the lock released
thread_save_users(t) ==
  /\ threads[t].pc = "write_users"
  /\ db_lock = t
  /\ users' = threads[t].users
  /\ db_lock' = 0
  /\ threads' = [threads EXCEPT ![t].pc = "load_ledger"]
  /\ UNCHANGED <<ledger, nextId>>

\* records = load_ledger(); record_transaction(records, ...)
thread_load_ledger(t) ==
  /\ threads[t].pc = "load_ledger"
  /\ LET base == IdsAfterLoad(ledger, nextId)
     IN /\ threads' = [threads EXCEPT ![t] =
             [@ EXCEPT !.pc = "save_ledger",
                       !.records = record_transaction(
                                     load_ledger(ledger, Now, nextId),
                                     ThreadSaleEntry(threads[t].users, threads[t]),
                                     Now, base + 1),
                       !.entry = base + 1]]
        /\ nextId' = base + 1
  /\ UNCHANGED <<users, ledger, db_lock>>

\* save_ledger(records): the file is replaced, no lock is taken
thread_save_ledger(t) ==
  /\ threads[t].pc = "save_ledger"
  /\ ledger' = threads[t].records
  /\ threads' = [threads EXCEPT ![t] = [@ EXCEPT !.pc = "done", !.ok = TRUE]]
  /\ UNCHANGED <<users, nextId, db_lock>>

NextRace ==
  \/ \E t \in Threads, req \in RaceRequests : start_request(t, req) /\ RaceQuiet
  \/ \E t \in Threads : thread_load_users(t) /\ RaceQuiet
  \/ \E t \in Threads : thread_acquire_db_lock(t) /\ RaceQuiet
  \/ \E t \in Threads : thread_save_users(t) /\ RaceQuiet
  \/ \E t \in Threads : thread_load_ledger(t) /\ RaceQuiet
  \/ \E t \in Threads : thread_save_ledger(t) /\ RaceQuiet

SpecRace == InitRace /\ [][NextRace]_vars

AllDone == \A t \in Threads : threads[t].pc = "done"

\* the request of thread t passed its check and ran to the end
Sold(t) == threads[t].pc = "done" /\ threads[t].users # <<>>

\* C3: when both requests have completed, every account a request marked sold
\* is sold in the persisted store, for every interleaving.
C3_NoLostUpdate ==
  AllDone => \A t \in Threads : Sold(t) => IsSold(users, threads[t].name)

\* C4: when both requests have completed, the ledger entry each of them
\* appended is in the persisted ledger, for every interleaving.
C4_BothEntriesPresent ==
  AllDone => \A t \in Threads :
    Sold(t) => \E i \in 1..Len(ledger) : ledger[i].id = threads[t].entry

\* ---- a save of the account store that fails ------------------------------------
\* a failing save that leaves without releasing the lock
thread_save_users_fails_KeepsLock(t) ==
  /\ threads[t].pc = "write_users"
  /\ db_lock = t
  /\ threads' = [threads EXCEPT ![t] =
       [@ EXCEPT !.pc = "load_ledger", !.save_failed = TRUE]]
  /\ UNCHANGED <<users, ledger, nextId, db_lock>>

\* save_users catches sqlite3.Error and prints it: the transaction is not
\* committed, so the store keeps its content, the lock is released, nothing is
\* raised or returned, and the handler goes on to its ledger steps.
thread_save_users_fails(t) ==
  /\ threads[t].pc = "write_users"
  /\ db_lock = t
  /\ db_lock' = 0
  /\ threads' = [threads EXCEPT ![t] =
       [@ EXCEPT !.pc = "load_ledger", !.save_failed = TRUE]]
  /\ UNCHANGED <<users, ledger, nextId>>

NextFault ==
  \/ \E t \in Threads, req \in RaceRequests : start_request(t, req) /\ RaceQuiet
  \/ \E t \in Threads : thread_load_users(t) /\ RaceQuiet
  \/ \E t \in Threads : thread_acquire_db_lock(t) /\ RaceQuiet
  \/ \E t \in Threads : thread_save_users(t) /\ RaceQuiet
  \/ \E t \in Threads : thread_save_users_fails(t) /\ RaceQuiet
  \/ \E t \in Threads : thread_load_ledger(t) /\ RaceQuiet
  \/ \E t \in Threads : thread_save_ledger(t) /\ RaceQuiet

SpecFault == InitRace /\ [][NextFault]_vars

\* a thread that waits for the free lock takes it in the end, and a thread
\* inside save_users leaves it in the end: the lock has at most MaxThreads
\* contenders, each of them once
FairThreads ==
  \A t \in Threads :
    /\ WF_vars(thread_acquire_db_lock(t) /\ RaceQuiet)
    /\ WF_vars((thread_save_users(t) \/ thread_save_users_fails(t)) /\ RaceQuiet)

SpecFaultFair == SpecFault /\ FairThreads

\* C33: a request that reaches save_users gets through it, whether or not an
\* earlier save by another request failed: the lock is free again after every
\* save, failed or not.
C33_SaveNeverBlocked ==
  \A t \in Threads :
    (threads[t].pc = "save_users")
      ~> (threads[t].pc \notin {"save_users", "write_users"})

\* a request holds the lock after the save of another request has failed
C33_Witness ==
  \E t \in Threads, o \in Threads :
    /\ t # o
    /\ threads[t].save_failed
    /\ threads[o].pc = "write_users"
    /\ db_lock = o

\* C21: a request whose save of the account store failed never has its ledger
\* entry in the persisted ledger, and when it has completed its answer is not
\* the success answer.
C21_FailedSaveNotCommitted ==
  \A t \in Threads :
    threads[t].save_failed =>
      /\ ~\E i \in 1..Len(ledger) : ledger[i].id = threads[t].entry
      /\ threads[t].pc = "done" => ~threads[t].ok

\* ---- update_account_state on a record in hand ------------------------------------

\* the accounting sub-dicts of the records a caller can hold
RawAccountings ==
  {NoAccounting,
   [present |-> TRUE, owner |-> "ag1", manager |-> "ag1",
    status |-> ACCOUNT_STATUS_AGENT_STOCK, sale_type |-> NONE, sold_at |-> NONE],
   [present |-> TRUE, owner |-> "ag1", manager |-> "d1",
    status |-> ACCOUNT_STATUS_SOLD, sale_type |-> SALE_TYPE_DIRECT,
    sold_at |-> "T2"],
   [present |-> TRUE, owner |-> "d1", manager |-> "d1",
    status |-> ACCOUNT_STATUS_DISTRIBUTOR_STOCK, sale_type |-> NONE,
    sold_at |-> NONE]}

\* the records a caller can hold: new and legacy inventory records, business
\* records and records that are no inventory
RawRecords ==
  {[EmptyRecord EXCEPT !.owner = o, !.forsale = f, !.assigned_distributor = ad,
                       !.sale_type = st, !.sold_at = sa, !.roles = r,
                       !.accounting = acc] :
     o \in {ABSENT, "ag1"}, f \in {ABSENT, PY_FALSE}, ad \in {ABSENT, "d1"},
     st \in {ABSENT, "distribution"}, sa \in {ABSENT, "T1"},
     r \in {{}, {ROLE_AGENT}}, acc \in RawAccountings}

\* the keyword arguments a call can pass
CallArgs ==
  [owner : {NONE, "d1"}, manager : {NONE, "ag1"},
   status : {NONE, ACCOUNT_STATUS_AGENT_STOCK, ACCOUNT_STATUS_DISTRIBUTOR_STOCK,
             ACCOUNT_STATUS_SOLD, "bogus"},
   sale_type : {NONE, SALE_TYPE_DIRECT, SALE_TYPE_DISTRIBUTION, "bogus"},
   sold_at : {NONE, "T1"}]

InitState ==
  /\ users = InitialUsers
  /\ ledger = <<>>
  /\ applications = <<>>
  /\ distribution_requests = <<>>
  /\ clock = 1
  /\ nextId = 0
  /\ response = [ok |-> TRUE]
  /\ threads = [t \in Threads |-> IdleThread]
  /\ db_lock = 0
  /\ \E data \in RawRecords : call = NoCall(data)

\* state = update_account_state(data, **args)
Update(args) ==
  /\ call.count = 0
  /\ call' = [count |-> 1, op |-> "update_account_state", args |-> args,
              before |-> call.data,
              data |-> update_account_state(call.data, args),
              returned |-> update_account_state_result(call.data, args),
              returned_before |-> call.returned]
  /\ UNCHANGED <<users, ledger, applications, distribution_requests, clock,
                 nextId, response, threads, db_lock>>

\* the same call once more on the record the first call left
Repeat ==
  /\ call.count = 1
  /\ call' = [count |-> 2, op |-> "update_account_state", args |-> call.args,
              before |-> call.data,
              data |-> update_account_state(call.data, call.args),
              returned |-> update_account_state_result(call.data, call.args),
              returned_before |-> call.returned]
  /\ UNCHANGED <<users, ledger, applications, distribution_requests, clock,
                 nextId, response, threads, db_lock>>

NextState ==
  \/ \E args \in CallArgs : Update(args)
  \/ Repeat

SpecState == InitState /\ [][NextState]_vars

\* a record of an inventory account that is no business actor
NonActorInventory(data) ==
  /\ _is_inventory_record(data)
  /\ ~IsBusinessRecord(data)
  /\ ~Truthy(Get(data.is_admin))
  /\ ~Truthy(Get(data.is_agent))
  /\ ~Truthy(Get(data.is_distributor))

\* the row of the mirror table for state
MirrorRow(data, state) ==
  LET differs == state.manager # state.owner
  IN /\ state.status = ACCOUNT_STATUS_AGENT_STOCK
          => /\ data.forsale = PY_TRUE
             /\ data.distribution_tag = PY_FALSE
             /\ data.distributor_forsale = PY_FALSE
             /\ data.distributor_sold = PY_FALSE
             /\ data.assigned_distributor = ABSENT
     /\ state.status = ACCOUNT_STATUS_DISTRIBUTOR_STOCK
          => /\ data.forsale = PY_FALSE
             /\ data.distribution_tag = PY_TRUE
             /\ data.distributor_forsale = PY_TRUE
             /\ data.distributor_sold = PY_FALSE
             /\ data.assigned_distributor = state.manager
     /\ state.status = ACCOUNT_STATUS_SOLD
          => /\ data.forsale = PY_FALSE
             /\ data.distributor_forsale = PY_FALSE
             /\ data.distribution_tag = PyBool(differs)
             /\ data.assigned_distributor
                  = (IF differs THEN state.manager ELSE ABSENT)
             /\ data.distributor_sold
                  = PyBool(state.sale_type = SALE_TYPE_DISTRIBUTION)

\* C9: after update_account_state on a non-actor inventory record, the
\* returned state has a valid status and the legacy fields forsale,
\* distribution_tag, distributor_forsale, distributor_sold and
\* assigned_distributor equal the mirror table's row for that state.
C9_MirrorTable ==
  (call.count > 0 /\ NonActorInventory(call.before))
    => /\ call.returned.status \in ValidStatuses
       /\ MirrorRow(call.data, call.returned)

C9_Witness ==
  /\ call.count = 1
  /\ NonActorInventory(call.before)
  /\ call.before.assigned_distributor = "d1"
  /\ call.returned.status = ACCOUNT_STATUS_AGENT_STOCK
  /\ call.data.assigned_distributor = ABSENT

\* C10: a second update_account_state call with the same arguments leaves
\* the record and the returned state as the first call left them.
C10_Idempotent ==
  call.count = 2 => call.data = call.before /\ call.returned = call.returned_before

C10_Witness ==
  /\ call.count = 2
  /\ call.args.status = ACCOUNT_STATUS_SOLD
  /\ call.args.owner = "d1"
  /\ call.before.accounting.present
  /\ call.data.accounting.status = ACCOUNT_STATUS_SOLD
  /\ call.data.distribution_tag = PY_TRUE

\* ---- normalize_user_record and update_account_state on loaded records ------------

\* an accounting sub-dict written by an unmigrated caller: both enums invalid
BogusAccounting ==
  [present |-> TRUE, owner |-> "ag1", manager |-> NONE, status |-> "bogus",
   sale_type |-> "bogus", sold_at |-> NONE]

\* the records a load can return: inventory records with and without an owner
\* (operator batches carry a source tag only), legacy-flag-only records,
\* business records, records that are no inventory, invalid enum values
LoadedRecords ==
  {[EmptyRecord EXCEPT !.owner = o, !.forsale = f, !.source = src, !.status = st,
                       !.sale_type = ty, !.roles = r, !.accounting = acc] :
     o \in {ABSENT, "ag1"}, f \in {ABSENT, PY_FALSE},
     src \in {ABSENT, "add", "batch"}, st \in {ABSENT, "bogus"},
     ty \in {ABSENT, "direct", "bogus"}, r \in {{}, {ROLE_AGENT}},
     acc \in RawAccountings \cup {BogusAccounting}}

\* the keyword arguments a call on a loaded record can pass
LoadedArgs ==
  [owner : {NONE, "d1"}, manager : {NONE, "ag1"},
   status : {NONE, ACCOUNT_STATUS_SOLD, "bogus"},
   sale_type : {NONE, SALE_TYPE_DIRECT, "bogus"},
   sold_at : {NONE, "T1"}]

InitNormalize ==
  /\ users = InitialUsers
  /\ ledger = <<>>
  /\ applications = <<>>
  /\ distribution_requests = <<>>
  /\ clock = 1
  /\ nextId = 0
  /\ response = [ok |-> TRUE]
  /\ threads = [t \in Threads |-> IdleThread]
  /\ db_lock = 0
  /\ \E data \in LoadedRecords : call = NoCall(data)

\* data = normalize_user_record(username, data), on a loaded record or once
\* more on the record the first pass left
Normalize ==
  /\ call.count < 2
  /\ call.op \in {"", "normalize_user_record"}
  /\ call' = [count |-> call.count + 1, op |-> "normalize_user_record",
              args |-> NoArgs, before |-> call.data,
              data |-> normalize_user_record(call.data),
              returned |-> call.returned, returned_before |-> call.returned]
  /\ UNCHANGED <<users, ledger, applications, distribution_requests, clock,
                 nextId, response, threads, db_lock>>

\* state = update_account_state(data, **args), on a loaded record or on a
\* normalized one
UpdateRecord(args) ==
  /\ call.count < 2
  /\ call.op \in {"", "normalize_user_record"}
  /\ call' = [count |-> call.count + 1, op |-> "update_account_state",
              args |-> args, before |-> call.data,
              data |-> update_account_state(call.data, args),
              returned |-> update_account_state_result(call.data, args),
              returned_before |-> call.returned]
  /\ UNCHANGED <<users, ledger, applications, distribution_requests, clock,
                 nextId, response, threads, db_lock>>

NextNormalize ==
  \/ Normalize
  \/ \E args \in LoadedArgs : UpdateRecord(args)

SpecNormalize == InitNormalize /\ [][NextNormalize]_vars

Normalized(data) == normalize_user_record(data) = data

\* C11: a second normalize_user_record pass leaves the record exactly as the
\* first pass left it, for inventory, actor, legacy-flag-only and
\* invalid-enum records alike.
C11_NormalizeIdempotent ==
  (call.op = "normalize_user_record" /\ call.count = 2) => call.data = call.before

C11_Witness ==
  /\ call.op = "normalize_user_record"
  /\ call.count = 2
  /\ call.data.accounting.present
  /\ call.data.accounting.manager = "d1"
  /\ call.data.assigned_distributor = "d1"
  /\ call.data.sale_type = LABEL_DIRECT

CanonicalFields == {"owner", "manager", "status", "sale_type", "sold_at"}

\* an update_account_state call was made on a normalized inventory record
UpdatedNormalized ==
  /\ call.op = "update_account_state"
  /\ _is_inventory_record(call.before)
  /\ Normalized(call.before)

\* C12 as stated: after update_account_state on a normalized inventory
\* record, every canonical field that was not passed has the value it had
\* before the call.
C12_OmittedKept ==
  UpdatedNormalized
    => \A f \in CanonicalFields :
         call.args[f] = NONE => call.data.accounting[f] = call.before.accounting[f]

\* C12 amended: every canonical field that was not passed keeps its value,
\* except that a manager that was unset before the call is the state's owner
\* after it.
C12_OmittedKeptOrDefaulted ==
  UpdatedNormalized
    => /\ \A f \in CanonicalFields \ {"manager"} :
            call.args[f] = NONE
              => call.data.accounting[f] = call.before.accounting[f]
       /\ call.args.manager = NONE
            => call.data.accounting.manager
                 = (IF Truthy(call.before.accounting.manager)
                    THEN call.before.accounting.manager
                    ELSE call.data.accounting.owner)

C12_Witness ==
  /\ UpdatedNormalized
  /\ call.args.owner = "d1"
  /\ call.args.manager = NONE
  /\ ~Truthy(call.before.accounting.manager)
  /\ call.data.accounting.manager = "d1"
  /\ call.data.accounting.status = call.before.accounting.status

\* no non-empty owner, none of the legacy tag fields, no recognized source tag
NonInventory(data) ==
  /\ ~Truthy(Get(data.owner))
  /\ data.forsale = ABSENT
  /\ data.distribution_tag = ABSENT
  /\ data.distributor_forsale = ABSENT
  /\ data.assigned_distributor = ABSENT
  /\ Get(data.source) \notin InventorySources

RoleFields == {"roles", "is_admin", "is_agent", "is_distributor"}

\* C13: update_account_state on a non-inventory record leaves the accounting
\* sub-dict and every field other than the roles and the role booleans as
\* they were, whatever arguments are passed; the roles are normalized and the
\* returned state is the default one.
C13_NonInventoryNoOp ==
  (call.op = "update_account_state" /\ NonInventory(call.before))
    => /\ \A f \in DOMAIN call.before \ RoleFields : call.data[f] = call.before[f]
       /\ call.data.roles # {}
       /\ call.before.roles \subseteq call.data.roles
       /\ call.data.is_admin = PyBool(ROLE_ADMIN \in call.data.roles)
       /\ call.data.is_agent = PyBool(ROLE_AGENT \in call.data.roles)
       /\ call.data.is_distributor = PyBool(ROLE_DISTRIBUTOR \in call.data.roles)
       /\ call.returned = AccountState

C13_Witness ==
  /\ call.op = "update_account_state"
  /\ NonInventory(call.before)
  /\ call.before.source = "add"
  /\ call.before.accounting.present
  /\ call.args.status = ACCOUNT_STATUS_SOLD
  /\ call.args.owner = "d1"
  /\ call.data.roles = {ROLE_CUSTOMER}
  /\ call.data.accounting = call.before.accounting

\* the values ensure_accounting reads as the record's status and sale_type
StatusRead(data) == PyOr(Get(data.accounting.status), Get(data.status))
SaleTypeRead(data) == PyOr(Get(data.accounting.sale_type), Get(data.sale_type))

\* the legacy sale_type strings ensure_accounting translates
DirectLabels == {SALE_TYPE_DIRECT, LABEL_DIRECT, "direct"}
DistributionLabels == {SALE_TYPE_DISTRIBUTION, LABEL_DISTRIBUTION, "distribution"}

\* one of the two functions ran on an inventory record
Coerced == call.count > 0 /\ _is_inventory_record(call.before)

\* what both statements of C14 share: the resulting enums are valid, an
\* invalid status read from the record becomes agent_stock, an invalid status
\* or sale_type passed to update_account_state becomes agent_stock or absent
CoercedToValid ==
  /\ call.data.accounting.status \in ValidStatuses
  /\ call.data.accounting.sale_type \in ValidSaleTypes
  /\ call.op = "normalize_user_record" /\ StatusRead(call.before) \notin ValidStatuses
       => call.data.accounting.status = ACCOUNT_STATUS_AGENT_STOCK
  /\ call.op = "update_account_state"
       => /\ call.returned.status \in ValidStatuses
          /\ call.returned.sale_type \in ValidSaleTypes
          /\ call.args.status \notin ValidStatuses \cup {NONE}
               => call.data.accounting.status = ACCOUNT_STATUS_AGENT_STOCK
          /\ call.args.sale_type \notin ValidSaleTypes
               => call.data.accounting.sale_type = NONE

DayOf(t) == IF TimeIndex(t) = 0 THEN 0 ELSE (TimeIndex(t) \div 2) + 1
\* _parse_dt(s).strftime("%Y-%m"): T1..T3 fall in one month
MonthOf(t) == IF TimeIndex(t) = 0 THEN 0 ELSE (TimeIndex(t) \div 4) + 1

AllDays == {DayOf(TimeStrings[i]) : i \in 1..Len(TimeStrings)}
AllMonths == {MonthOf(TimeStrings[i]) : i \in 1..Len(TimeStrings)}

\* int(r.get('quantity', r.get('count', 0)) or 0)
RecordQuantity(r) ==
  IF r.quantity.t # "absent" THEN NumOrZero(r.quantity) ELSE NumOrZero(r.count)

\* the entries _aggregate_stats adds up
CountedRecords(records, agent_view) ==
  SelectSeq(records,
    LAMBDA r : /\ PyOr(Get(r.actor_role), Get(r.role)) = ROLE_AGENT
               /\ GetOr(r.direction, "in") = "in"
               /\ ~(agent_view /\ Get(r.transaction_type) = TRANSACTION_ASSIGNMENT)
               /\ DayOf(Get(r.time)) # 0)

RECURSIVE SumQuantities(_)
SumQuantities(records) ==
  IF records = <<>> THEN 0
  ELSE RecordQuantity(Head(records)) + SumQuantities(Tail(records))

OnDay(records, d) == SelectSeq(records, LAMBDA r : DayOf(Get(r.time)) = d)
InMonth(records, m) == SelectSeq(records, LAMBDA r : MonthOf(Get(r.time)) = m)

\* a variant without the test of prev
_pct_change_NoZeroGuard(cur, prev) ==
  [num |-> (cur - prev) * 100, den |-> prev]

\* _pct_change as the fraction num / den
_pct_change(cur, prev) ==
  IF prev = 0 THEN [num |-> IF cur > 0 THEN 100 ELSE 0, den |-> 1]
  ELSE [num |-> (cur - prev) * 100, den |-> prev]

\* the sold and revenue KPIs of _aggregate_stats over the counted entries
Kpis(counted, t) ==
  [today_sold |-> SumQuantities(OnDay(counted, DayOf(t))),
   yesterday_sold |-> SumQuantities(OnDay(counted, DayOf(t) - 1)),
   month_sold |-> SumQuantities(InMonth(counted, MonthOf(t))),
   last_month_sold |-> SumQuantities(InMonth(counted, MonthOf(t) - 1)),
   today_rev |-> SumAmounts(OnDay(counted, DayOf(t))),
   yesterday_rev |-> SumAmounts(OnDay(counted, DayOf(t) - 1)),
   month_rev |-> SumAmounts(InMonth(counted, MonthOf(t))),
   last_month_rev |-> SumAmounts(InMonth(counted, MonthOf(t) - 1)),
   dod_sold |-> _pct_change(SumQuantities(OnDay(counted, DayOf(t))),
                            SumQuantities(OnDay(counted, DayOf(t) - 1))),
   mom_sold |-> _pct_change(SumQuantities(InMonth(counted, MonthOf(t))),
                            SumQuantities(InMonth(counted, MonthOf(t) - 1))),
   dod_rev |-> _pct_change(SumAmounts(OnDay(counted, DayOf(t))),
                           SumAmounts(OnDay(counted, DayOf(t) - 1))),
   mom_rev |-> _pct_change(SumAmounts(InMonth(counted, MonthOf(t))),
                           SumAmounts(InMonth(counted, MonthOf(t) - 1)))]

\* the series of _aggregate_stats over the counted entries; the labels run up
\* to the day and the month of t
Series(counted, t) ==
  [day_sold |-> [d \in {x \in AllDays : x <= DayOf(t)} |->
                   SumQuantities(OnDay(counted, d))],
   day_rev |-> [d \in {x \in AllDays : x <= DayOf(t)} |->
                  SumAmounts(OnDay(counted, d))],
   mon_sold |-> [m \in {x \in AllMonths : x <= MonthOf(t)} |->
                   SumQuantities(InMonth(counted, m))],
   mon_rev |-> [m \in {x \in AllMonths : x <= MonthOf(t)} |->
                  SumAmounts(InMonth(counted, m))]]

\* _aggregate_stats: the sold and revenue series and KPIs (the series of new
\* accounts and the regions are read from the users and are not modelled)
_aggregate_stats(records, agent_view, t) ==
  [series |-> Series(CountedRecords(records, agent_view), t),
   kpis |-> Kpis(CountedRecords(records, agent_view), t)]

\* sales_stats: the statistics of the agent or distributor current_user
sales_stats(file, current_user, t, base) ==
  _aggregate_stats(
    SelectSeq(load_ledger(file, t, base),
      LAMBDA r : Get(r.role) = ROLE_AGENT /\ Get(r.admin) = current_user),
    TRUE, t)

\* ---- scenarios of the sequential system ------------------------------------------

\* the ledger a step leaves starts with the entries it found
KeepsEntries == \A i \in 1..Len(ledger) : SameEntry(ledger[i], ledger'[i])

\* the entry a step appended last
LastEntry == ledger'[Len(ledger')]

\* C15: mark-sold by agent A on an agent_stock account owned by A leaves the
\* account sold with sale_type direct_sale, manager A, sold_at the current
\* time, the owner unchanged and legacy forsale false, and appends exactly
\* one ledger entry: agent_direct_sale, actor A, direction in, quantity 1,
\* account_username the account.
C15_DirectSale ==
  [][\A a \in Agents, n \in Names :
       (AgentCanSell(users, n, a) /\ mark_sold(a, n))
         => /\ Accounting(users', n, "status") = ACCOUNT_STATUS_SOLD
            /\ Accounting(users', n, "sale_type") = SALE_TYPE_DIRECT
            /\ Accounting(users', n, "manager") = a
            /\ Accounting(users', n, "sold_at") = Now
            /\ Accounting(users', n, "owner") = Accounting(users, n, "owner")
            /\ users'[n].owner = a
            /\ users'[n].forsale = PY_FALSE
            /\ \A m \in DOMAIN users \ {n} : users'[m] = users[m]
            /\ Len(ledger') = Len(ledger) + 1
            /\ KeepsEntries
            /\ LastEntry.transaction_type = TRANSACTION_AGENT_DIRECT_SALE
            /\ LastEntry.actor = a
            /\ LastEntry.direction = "in"
            /\ LastEntry.quantity = Num(1)
            /\ LastEntry.account_username = n
    ]_storeVars

C15_Witness ==
  /\ Len(ledger) > 0
  /\ ledger[Len(ledger)].transaction_type = TRANSACTION_AGENT_DIRECT_SALE
  /\ \E n \in DOMAIN users :
       /\ ledger[Len(ledger)].account_username = n
       /\ SoldAs(users, n, SALE_TYPE_DIRECT)
       /\ Accounting(users, n, "sold_at") = "T2"
       /\ users[n].forsale = PY_FALSE

\* the accounts a step moves into a distributor's stock
NewlyTransferred ==
  {n \in DOMAIN users :
     /\ Accounting(users, n, "status") # ACCOUNT_STATUS_DISTRIBUTOR_STOCK
     /\ Accounting(users', n, "status") = ACCOUNT_STATUS_DISTRIBUTOR_STOCK}

\* C16: approving distributor B's stock request for N units, agent A holding
\* at least N agent_stock accounts, moves exactly N accounts, each in
\* agent_stock and owned by A before, to distributor_stock with owner and
\* manager B and leaves every other account unchanged; distributor mark-sold
\* on an account of B's distributor_stock makes exactly that account sold
\* with sale_type distribution_sale and manager B.
C16_DistributionFlow ==
  [][/\ \A i \in NewlyApproved(distribution_requests, distribution_requests') :
          /\ Cardinality(NewlyTransferred) = distribution_requests[i].quantity
          /\ distribution_requests'[i].assigned_accounts = NewlyTransferred
          /\ \A n \in NewlyTransferred :
               /\ Accounting(users, n, "owner") = distribution_requests[i].agent
               /\ Accounting(users, n, "status") = ACCOUNT_STATUS_AGENT_STOCK
               /\ Accounting(users', n, "owner") = distribution_requests[i].distributor
               /\ Accounting(users', n, "manager") = distribution_requests[i].distributor
          /\ DOMAIN users' = DOMAIN users
          /\ \A m \in DOMAIN users \ NewlyTransferred : users'[m] = users[m]
     /\ \A i \in 1..Len(distribution_requests), a \in Agents :
          ( /\ distribution_requests[i].status = "pending"
            /\ distribution_requests[i].agent = a
            /\ Cardinality(available_accounts(users, a))
                 >= distribution_requests[i].quantity
            /\ approve_distribution_request(a, i) )
            => i \in NewlyApproved(distribution_requests, distribution_requests')
     /\ \A d \in Names, n \in Names :
          ( /\ n \in DOMAIN users
            /\ Accounting(users, n, "owner") = d
            /\ Accounting(users, n, "status") = ACCOUNT_STATUS_DISTRIBUTOR_STOCK
            /\ distributor_mark_sold(d, n) )
            => /\ SoldAs(users', n, SALE_TYPE_DISTRIBUTION)
               /\ Accounting(users', n, "manager") = d
               /\ Accounting(users', n, "owner") = d
               /\ \A m \in DOMAIN users \ {n} : users'[m] = users[m]
    ]_storeVars

C16_Witness ==
  /\ \E i \in 1..Len(distribution_requests) :
       /\ distribution_requests[i].status = "approved"
       /\ distribution_requests[i].quantity = MaxCount
       /\ Cardinality(distribution_requests[i].assigned_accounts) = MaxCount
       /\ \E n \in distribution_requests[i].assigned_accounts :
            /\ SoldAs(users, n, SALE_TYPE_DISTRIBUTION)
            /\ Accounting(users, n, "manager") = distribution_requests[i].distributor
       /\ \E n \in distribution_requests[i].assigned_accounts :
            /\ Accounting(users, n, "status") = ACCOUNT_STATUS_DISTRIBUTOR_STOCK
            /\ Accounting(users, n, "owner") = distribution_requests[i].distributor

\* C17: approving a distributor's stock request leaves the statistics scoped
\* to the approving agent (revenue and sold series, KPIs) as they were.
C17_TransferNotRevenue ==
  [][\A i \in NewlyApproved(distribution_requests, distribution_requests') :
       sales_stats(ledger', distribution_requests[i].agent, Now, nextId')
         = sales_stats(ledger, distribution_requests[i].agent, Now, nextId)
    ]_storeVars

\* C18: distributor mark-sold by B on an account of B's distributor_stock
\* priced p raises the statistics scoped to B by p for the current day and
\* month and the sold counts of the day and month by 1.
C18_DistributorSaleCounted ==
  [][\A d \in Names, n \in Names :
       ( /\ n \in DOMAIN users
         /\ DistributorCanSell(users, n, d)
         /\ distributor_mark_sold(d, n) )
         => /\ sales_stats(ledger', d, Now, nextId').kpis.today_rev
                 = sales_stats(ledger, d, Now, nextId).kpis.today_rev + users[n].price
            /\ sales_stats(ledger', d, Now, nextId').kpis.month_rev
                 = sales_stats(ledger, d, Now, nextId).kpis.month_rev + users[n].price
            /\ sales_stats(ledger', d, Now, nextId').kpis.today_sold
                 = sales_stats(ledger, d, Now, nextId).kpis.today_sold + 1
            /\ sales_stats(ledger', d, Now, nextId').kpis.month_sold
                 = sales_stats(ledger, d, Now, nextId).kpis.month_sold + 1
    ]_storeVars

\* the request of a step is one of the rejected operations of C19
RejectedRequest ==
  \/ \E a \in Agents, n \in Names :
       /\ ~( /\ Accounting(users, n, "owner") = a
             /\ Accounting(users, n, "status") = ACCOUNT_STATUS_AGENT_STOCK )
       /\ mark_sold(a, n)
  \/ \E d \in Names, n \in Names :
       /\ ~( /\ Accounting(users, n, "owner") = d
             /\ Accounting(users, n, "status") = ACCOUNT_STATUS_DISTRIBUTOR_STOCK )
       /\ distributor_mark_sold(d, n)
  \/ \E a \in Agents, d \in Names :
       /\ ~( /\ d \in DOMAIN users
             /\ Truthy(Get(users[d].is_distributor))
             /\ Get(users[d].distributor_owner) = a )
       /\ \E ns \in NameLists : assign_accounts(a, ns, d)

\* C19: agent mark-sold on an account the caller does not own or that is not
\* in agent_stock, distributor mark-sold on an account that is not the
\* caller's distributor_stock, and an assignment to a distributor that is not
\* bound to the calling agent leave every account record and the ledger as
\* they were: no step that changes an account record or the ledger is such a
\* request.
C19_RejectionMutatesNothing ==
  [][(users' # users \/ ledger' # ledger) => ~RejectedRequest]_storeVars

\* a request was rejected after accounts were sold, transferred and assigned
C19_Witness ==
  /\ ~response.ok
  /\ Len(ledger) >= 3
  /\ \E n \in DOMAIN users : SoldAs(users, n, SALE_TYPE_DIRECT)
  /\ \E n \in DOMAIN users :
       Accounting(users, n, "status") = ACCOUNT_STATUS_DISTRIBUTOR_STOCK

\* C20: a sale request on an existing account that fails the precondition
\* (agent mark-sold on an account not in the caller's agent_stock, distributor
\* mark-sold on an account not in the caller's distributor_stock) is answered
\* with a failure.
C20_RejectionReported ==
  [][/\ \A a \in Agents, n \in Names :
          ( /\ n \in DOMAIN users
            /\ ~( /\ Accounting(users, n, "owner") = a
                  /\ Accounting(users, n, "status") = ACCOUNT_STATUS_AGENT_STOCK )
            /\ mark_sold(a, n) )
            => ~response'.ok
     /\ \A d \in Names, n \in Names :
          ( /\ n \in DOMAIN users
            /\ ~( /\ Accounting(users, n, "owner") = d
                  /\ Accounting(users, n, "status") = ACCOUNT_STATUS_DISTRIBUTOR_STOCK )
            /\ distributor_mark_sold(d, n) )
            => ~response'.ok
    ]_storeVars

\* ---- bulk assignment ------------------------------------------------------------

InList(names, n) == \E i \in 1..Len(names) : names[i] = n

\* the items of a list and its answer add up: every valid item has the
\* distributor as manager afterwards and is not reported, every invalid item
\* keeps its record and is reported
AssignedItemwise(before, after, names, a, d, answer) ==
  /\ answer.success
  /\ answer.assigned_count + Len(answer.invalid_accounts) = Len(names)
  /\ \A i \in 1..Len(names) :
       IF AssignableTo(before, names[i], a, d)
       THEN /\ Accounting(after, names[i], "manager") = d
            /\ ~InList(answer.invalid_accounts, names[i])
       ELSE /\ names[i] \in DOMAIN before => after[names[i]] = before[names[i]]
            /\ InList(answer.invalid_accounts, names[i])

\* C22: for every list of usernames passed to assign_accounts with a valid
\* distributor, each item is validated on its own: a valid item has its manager
\* set to the distributor, an invalid item is left unchanged and is reported in
\* invalid_accounts, and assigned_count plus the number of reported items is
\* the number of items submitted.
C22_PartialAssignment ==
  \A a \in Agents, d \in Usernames :
    (SessionAgent(users, a) /\ ValidDistributor(users, d, a)) =>
      \A ns \in NameLists :
        AssignedItemwise(users, assign_accounts_result(users, ns, a, d, Now).users,
                         ns, a, d,
                         assign_accounts_result(users, ns, a, d, Now).response)

\* a hand-off has happened, and a list with one item that can be handed off
\* and one that cannot is at hand
C22_Witness ==
  /\ response.ok
  /\ \E a \in Agents, d \in Usernames, ns \in NameLists :
       /\ ValidDistributor(users, d, a)
       /\ Len(ns) = 2
       /\ AssignableTo(users, ns[1], a, d) /\ ~AssignableTo(users, ns[2], a, d)
  /\ \E n \in Usernames, d \in Usernames, a \in Agents :
       /\ ValidDistributor(users, d, a)
       /\ n \in DOMAIN users /\ Get(users[n].assigned_at) # NONE
       /\ Accounting(users, n, "manager") = d
       /\ IsSold(users, n)
       /\ ~AssignableTo(users, d, a, d)

\* ---- ledger entries in hand ------------------------------------------------------

MaxNumber == 3

\* the values a numeric field of a stored ledger dict can hold
NumValues == {NumAbsent, NumNone, NumText, Num(0), Num(MaxNumber), Num(0 - MaxNumber)}

\* ledger dicts as load_ledger can read them from the file
RawLedgerDicts ==
  {[EmptyLedgerDict EXCEPT !.id = 7, !.amount = a, !.revenue = r, !.price = p,
                           !.count = c, !.quantity = q, !.direction = d,
                           !.transaction_type = tt] :
     a \in NumValues, r \in NumValues, p \in NumValues, c \in NumValues,
     q \in {NumAbsent, Num(MaxNumber)}, d \in {ABSENT, "out"},
     tt \in {ABSENT, TRANSACTION_AGENT_PURCHASE}}

TransactionTypes ==
  {TRANSACTION_ADMIN_TO_AGENT, TRANSACTION_AGENT_PURCHASE,
   TRANSACTION_AGENT_DIRECT_SALE, TRANSACTION_AGENT_TO_DISTRIBUTOR,
   TRANSACTION_DISTRIBUTOR_SALE, TRANSACTION_ASSIGNMENT}

\* the keyword arguments a caller passes to build_ledger_entry; a direction of
\* ABSENT is a call without the direction keyword
PassedArgs ==
  [transaction_type : TransactionTypes,
   actor_role : {ROLE_ADMIN, ROLE_AGENT, ROLE_DISTRIBUTOR},
   amount : {0 - 100 * MaxNumber, 0, 250, 100 * MaxNumber},
   quantity : {0, 1, MaxNumber},
   direction : {ABSENT, "in", "out"},
   counterparty : {NONE, "u1"},
   sale_type : {NONE, SALE_TYPE_DIRECT}]

\* the call build_ledger_entry(**passed): keywords not passed take the defaults
KeywordArgs(passed) ==
  [LedgerArgs EXCEPT
     !.transaction_type = passed.transaction_type, !.actor = "ag1",
     !.actor_role = passed.actor_role, !.amount = passed.amount,
     !.quantity = passed.quantity, !.counterparty = passed.counterparty,
     !.sale_type = passed.sale_type,
     !.direction = IF passed.direction = ABSENT THEN @ ELSE passed.direction]

NoPassedArgs ==
  [transaction_type |-> "", actor_role |-> "", amount |-> 0, quantity |-> 0,
   direction |-> ABSENT, counterparty |-> NONE, sale_type |-> NONE]

NoEntry == from_raw(EmptyLedgerDict, ABSENT, 0)

InitLedger ==
  /\ users = InitialUsers
  /\ ledger = <<>>
  /\ applications = <<>>
  /\ distribution_requests = <<>>
  /\ clock = 1
  /\ nextId = 0
  /\ response = [ok |-> TRUE]
  /\ threads = [t \in Threads |-> IdleThread]
  /\ db_lock = 0
  /\ call = [op |-> "", source |-> "", args |-> NoPassedArgs,
             dict |-> EmptyLedgerDict, entry |-> NoEntry,
             again |-> EmptyLedgerDict]

LedgerQuiet ==
  UNCHANGED <<users, ledger, applications, distribution_requests, clock,
              nextId, response, threads, db_lock>>

\* a dict read from the ledger file
ReadRaw(raw) ==
  /\ call.op = ""
  /\ call' = [call EXCEPT !.op = "load", !.source = "file", !.dict = raw]
  /\ LedgerQuiet

\* dict = build_ledger_entry(**passed)
Build(passed) ==
  /\ call.op = ""
  /\ call' = [call EXCEPT !.op = "build_ledger_entry",
                          !.source = "build_ledger_entry", !.args = passed,
                          !.dict = build_ledger_entry(KeywordArgs(passed), Now, 1)]
  /\ LedgerQuiet

\* entry = LedgerEntry.from_raw(dict)
FromRaw ==
  /\ call.op \in {"load", "build_ledger_entry"}
  /\ call' = [call EXCEPT !.op = "from_raw",
                          !.entry = from_raw(call.dict, Now, 2)]
  /\ LedgerQuiet

\* again = entry.to_dict()
ToDict ==
  /\ call.op = "from_raw"
  /\ call' = [call EXCEPT !.op = "to_dict", !.again = to_dict(call.entry)]
  /\ LedgerQuiet

NextLedger ==
  \/ \E raw \in RawLedgerDicts : ReadRaw(raw)
  \/ \E passed \in PassedArgs : Build(passed)
  \/ FromRaw
  \/ ToDict

SpecLedger == InitLedger /\ [][NextLedger]_vars

\* the built dict has been through from_raw and to_dict
RoundTripped == call.op = "to_dict" /\ call.source = "build_ledger_entry"

\* the entry read back has the id, amount, quantity and direction of the dict
SameEssentials ==
  /\ call.entry.id = call.dict.id
  /\ Num(call.entry.amount) = call.dict.amount
  /\ Num(call.entry.quantity) = call.dict.quantity
  /\ call.entry.direction = call.dict.direction

\* the metadata from_raw leaves on a dict that had none: a copy of the mirrors
MirrorMetadata(d) ==
  [legacy_admin |-> d.admin, legacy_role |-> d.role, legacy_count |-> d.count,
   legacy_revenue |-> d.revenue, legacy_price |-> d.price,
   legacy_user_id |-> NONE, legacy_direction |-> d.direction]

C24_AmountNonNegative ==
  (call.op = "from_raw" /\ call.source = "file") => call.entry.amount >= 0

\* the amount the precedence rule gives: the explicit amount when it is a
\* number, otherwise revenue when it is a number, otherwise price x count
\* with count 1 when zero or absent, otherwise 0
IsNumber(x) == x.t = "num"
AmountByPrecedence(raw) ==
  IF IsNumber(raw.amount) THEN raw.amount.v
  ELSE IF IsNumber(raw.revenue) THEN raw.revenue.v
  ELSE IF IsNumber(raw.price) /\ ~NumRaises(raw.count)
       THEN raw.price.v * (IF NumOrZero(raw.count) = 0 THEN 1
                           ELSE NumOrZero(raw.count))
       ELSE 0

\* C25: from_raw derives the amount by strict precedence, so that a dict whose
\* amount is present but null or text and whose revenue is a number gets the
\* revenue.
C25_AmountPrecedence ==
  (call.op = "from_raw" /\ call.source = "file") =>
    call.entry.amount = AmountByPrecedence(call.dict)

\* C26: a dict built without a direction keyword has direction out when the
\* transaction type is agent_purchase and in for every other type.
C26_DirectionDerived ==
  (call.op = "build_ledger_entry" /\ call.args.direction = ABSENT) =>
    call.dict.direction =
      IF call.args.transaction_type = TRANSACTION_AGENT_PURCHASE THEN "out"
      ELSE "in"

\* ---- sold counts of the statistics ------------------------------------------

\* my_users of sales_stats: the records whose owner field is current_user
my_users(us, current_user) ==
  {n \in DOMAIN us : Get(us[n].owner) = current_user}

\* sold_day of _aggregate_stats: the accounts with forsale false and a sold_at
\* on day d; the function computes it and does not use it in its result
sold_day(us, names, d) ==
  Cardinality({n \in names : /\ Get(us[n].forsale) = PY_FALSE
                             /\ Truthy(Get(us[n].sold_at))
                             /\ DayOf(Get(us[n].sold_at)) = d})

\* sold_mon of _aggregate_stats, likewise by month
sold_mon(us, names, m) ==
  Cardinality({n \in names : /\ Get(us[n].forsale) = PY_FALSE
                             /\ Truthy(Get(us[n].sold_at))
                             /\ MonthOf(Get(us[n].sold_at)) = m})

\* C27: the sold count of every day and month of an agent's statistics is the
\* number of the agent's accounts whose sold_at falls in that bucket, whatever
\* the ledger holds.
C27_SoldCountFromAccounts ==
  \A a \in Agents :
    SessionAgent(users, a) =>
      /\ \A d \in {x \in AllDays : x <= DayOf(Now)} :
           sales_stats(ledger, a, Now, nextId).series.day_sold[d]
             = sold_day(users, my_users(users, a), d)
      /\ \A m \in {x \in AllMonths : x <= MonthOf(Now)} :
           sales_stats(ledger, a, Now, nextId).series.mon_sold[m]
             = sold_mon(users, my_users(users, a), m)

\* ---- the percent change of two values --------------------------------------

MaxValue == 5

\* the values the KPIs compare: counts, and revenues of either sign
Values == (0 - MaxValue)..MaxValue

InitChange ==
  /\ users = InitialUsers
  /\ ledger = <<>>
  /\ applications = <<>>
  /\ distribution_requests = <<>>
  /\ clock = 1
  /\ nextId = 0
  /\ response = [ok |-> TRUE]
  /\ threads = [t \in Threads |-> IdleThread]
  /\ db_lock = 0
  /\ call = [op |-> "", cur |-> 0, prev |-> 0, returned |-> [num |-> 0, den |-> 1]]

\* returned = _pct_change(cur, prev)
PctChange(cur, prev) ==
  /\ call.op = ""
  /\ call' = [op |-> "_pct_change", cur |-> cur, prev |-> prev,
              returned |-> _pct_change(cur, prev)]
  /\ LedgerQuiet

NextChange == \E cur \in Values, prev \in Values : PctChange(cur, prev)

SpecChange == InitChange /\ [][NextChange]_vars

\* the fraction f is the number n / d, for d other than 0
IsQuotient(f, n, d) == f.den # 0 /\ f.num * d = n * f.den

\* C28: for all current and previous values the percent change is 100 when
\* previous is 0 and current is positive, 0 when previous is 0 and current is
\* not positive, and (current - previous) / previous x 100 when previous is
\* not 0; no division has a divisor of 0.
C28_PctChange ==
  call.op = "_pct_change" =>
    /\ call.returned.den # 0
    /\ call.prev = 0 =>
         IsQuotient(call.returned, IF call.cur > 0 THEN 100 ELSE 0, 1)
    /\ call.prev # 0 =>
         IsQuotient(call.returned, (call.cur - call.prev) * 100, call.prev)

\* the change from 0 to a positive value has been computed
C28_Witness ==
  /\ call.op = "_pct_change"
  /\ call.prev = 0
  /\ call.cur > 0
  /\ call.returned.num = 100

\* ---- frame of the hand-off and of the reversal ---------------------------------

\* the fields of a record a hand-off can write: the manager, the legacy
\* fields derived from it and the time of the hand-off
HandOffFields ==
  {"accounting", "manager", "distribution_tag", "assigned_distributor",
   "assigned_at"}

\* account n was handed to d: the manager is d, every other canonical field
\* and every field outside HandOffFields is as before
HandedOff(before, after, n, d) ==
  /\ Accounting(after, n, "manager") = d
  /\ \A f \in CanonicalFields \ {"manager"} :
       Accounting(after, n, f) = Accounting(before, n, f)
  /\ \A f \in DOMAIN before[n] \ HandOffFields : after[n][f] = before[n][f]
  /\ Get(after[n].manager) \in {d, Get(before[n].manager)}
  /\ Get(after[n].assigned_distributor) \in {d, Get(before[n].assigned_distributor)}

ApplicationRecords ==
  [id : {1}, agent : Agents, count : Counts, price : Prices, product : Products,
   status : {"pending"}]

\* the usernames gen_username_numeric can return for the units of app_record
DrawnNames(us, app_record) ==
  {unames \in SUBSET (Usernames \ DOMAIN us) :
     Cardinality(unames) = UnitsOf(app_record.count)}

\* after consists of before and of one fresh agent_stock account of the
\* applying agent per unit
WholesaledTo(before, after, app_record) ==
  /\ Cardinality(DOMAIN after \ DOMAIN before) = app_record.count
  /\ \A n \in DOMAIN before : n \in DOMAIN after /\ after[n] = before[n]
  /\ \A n \in DOMAIN after \ DOMAIN before :
       /\ Accounting(after, n, "status") = ACCOUNT_STATUS_AGENT_STOCK
       /\ Accounting(after, n, "owner") = app_record.agent
       /\ Accounting(after, n, "manager") = app_record.agent
       /\ Accounting(after, n, "sale_type") = NONE
       /\ ~Truthy(Accounting(after, n, "sold_at"))
       /\ ~Truthy(Get(after[n].sold_at))
       /\ Get(after[n].forsale) = PY_TRUE

\* C31: on every reachable store, the approval of an agent's application for N
\* accounts adds exactly N records, each in agent_stock with owner = manager =
\* the agent, no sale_type, no sold_at and forsale true, and leaves every
\* record that was there as it was.
C31_WholesaleCreates ==
  \A app_record \in ApplicationRecords :
    \A unames \in DrawnNames(users, app_record) :
      WholesaledTo(users, ApprovedUsers(users, app_record, unames, Now), app_record)

\* an approval has acted, one of its accounts has been sold since, and a
\* username is left for a further approval
C31_Witness ==
  /\ \E i \in 1..Len(applications) :
       applications[i].status = "approved" /\ applications[i].count = 1
  /\ \E n \in DOMAIN users : IsSold(users, n) /\ Get(users[n].source) = "agent"
  /\ Usernames \ DOMAIN users # {}

\* ---- business actors and inventory -------------------------------------------------

\* the record has an admin, agent or distributor role, as a flag or in roles
HasBusinessRole(data) ==
  \/ Truthy(Get(data.is_admin))
  \/ Truthy(Get(data.is_agent))
  \/ Truthy(Get(data.is_distributor))
  \/ IsBusinessRecord(data)

\* C32: in every reachable state no record with an admin, agent or distributor
\* role carries a canonical accounting state.
C32_ActorsCarryNoState ==
  \A n \in DOMAIN users : HasBusinessRole(users[n]) => ~users[n].accounting.present

\* ---- sold_at backfill on a store of legacy records -----------------------------------

\* accounts as stored before sold_at and the accounting state existed
LegacyAccounts ==
  {[EmptyRecord EXCEPT !.owner = "ag1", !.source = "agent", !.product = "p1",
                       !.price = 250, !.forsale = f, !.sold_at = sa,
                       !.created_at = ca] :
     f \in {ABSENT, PY_FALSE, PY_TRUE}, sa \in {ABSENT, "T1"}, ca \in {"T1", "T2"}}

\* ledger records as stored before the canonical entry existed
LegacySales ==
  {[EmptyLedgerDict EXCEPT !.role = ROLE_AGENT, !.admin = "ag1", !.count = Num(c),
                           !.revenue = Num(250 * c), !.time = t, !.product = p] :
     c \in 1..MaxCount, t \in {"T1", "T2"}, p \in {ABSENT, "p1"}}

InitBackfill ==
  /\ \E accounts \in [Usernames -> LegacyAccounts] :
       users = [n \in DOMAIN InitialUsers \cup Usernames |->
                  IF n \in Usernames THEN accounts[n] ELSE InitialUsers[n]]
  /\ ledger \in SeqsUpTo(LegacySales, 2) \ {<<>>}
  /\ applications = <<>>
  /\ distribution_requests = <<>>
  /\ clock = MaxClock
  /\ nextId = 0
  /\ response = [ok |-> TRUE]
  /\ Sequential

NextBackfill == \E ad \in Admins : backfill_sold_at(ad) /\ Quiet

SpecBackfill == InitBackfill /\ [][NextBackfill]_vars

\* the units of quantity of the records the backfill reads
RECURSIVE TotalCount(_)
TotalCount(records) ==
  IF records = <<>> THEN 0
  ELSE NumOrZero(Head(records).count) + TotalCount(Tail(records))

Backfilled == {n \in DOMAIN users : users'[n] # users[n]}

\* C34: a run of the sold_at backfill leaves the ledger as it is, leaves every
\* account that has a sold_at as it is, gives a time only to accounts whose
\* forsale is not true and that have no sold_at, changes nothing of them but
\* sold_at and sold_by, and updates at most as many accounts as the ledger
\* records it reads have units.
C34_BackfillFrame ==
  [][\A ad \in Admins :
       backfill_sold_at(ad) =>
         /\ ledger' = ledger
         /\ DOMAIN users' = DOMAIN users
         /\ \A n \in Backfilled :
              /\ ~Truthy(Get(users[n].sold_at))
              /\ ~Truthy(GetOr(users[n].forsale, PY_FALSE))
              /\ Truthy(Get(users'[n].sold_at))
              /\ \A f \in DOMAIN users[n] \ {"sold_at", "sold_by"} :
                   users'[n][f] = users[n][f]
         /\ Cardinality(Backfilled)
              <= TotalCount(BackfillRecords(load_ledger(ledger, Now, nextId)))]_storeVars

\* the backfill has given one account a time and left another, which had
\* one, alone
C34_Witness ==
  \E n \in Usernames, m \in Usernames :
    /\ Get(users[n].sold_by) = "ag1"
    /\ Truthy(Get(users[n].sold_at))
    /\ Get(users[m].sold_by) = NONE
    /\ Truthy(Get(users[m].sold_at))
    /\ Get(users[m].forsale) = PY_FALSE

\* ---------------------------------------------------------------------------
\* legacy records without a canonical status
\* ---------------------------------------------------------------------------

\* the record carries no status of its own: no accounting sub-dict and no
\* top-level status
NoCanonicalStatus(data) ==
  /\ ~data.accounting.present
  /\ Get(data.status) \in {ABSENT, NONE}

\* the status the legacy flags stand for
StatusOfLegacyFlags(data) ==
  IF Truthy(Get(data.distributor_forsale)) THEN ACCOUNT_STATUS_DISTRIBUTOR_STOCK
  ELSE IF Get(data.forsale) = PY_FALSE THEN ACCOUNT_STATUS_SOLD
  ELSE ACCOUNT_STATUS_AGENT_STOCK

\* C35: normalizing a legacy inventory record that carries no canonical status
\* derives the status from its legacy flags (distributor_forsale truthy gives
\* distributor_stock, else forsale false gives sold, else agent_stock), so a
\* record with forsale false and no status keeps forsale false
C35_LegacyStatusDerived ==
  (/\ call.op = "normalize_user_record"
   /\ _is_inventory_record(call.before)
   /\ NoCanonicalStatus(call.before))
    => /\ call.data.accounting.status = StatusOfLegacyFlags(call.before)
       /\ (Get(call.before.forsale) = PY_FALSE
             => Get(call.data.forsale) = PY_FALSE)

\* ---------------------------------------------------------------------------
\* tenant routing: requests of two tenants served by threads of one process
\* ---------------------------------------------------------------------------

TENANT_MAP == [huiying |-> "user-700243.db", xiangyi |-> "user-700244.db"]

Tenants == DOMAIN TENANT_MAP

\* the ?space= argument or session value of a request; "" is none, "other" is
\* a key TENANT_MAP does not hold
Spaces == Tenants \cup {"", "other"}

\* the module global db_utils.DB_PATH, and per database the tenant whose
\* collection it holds
InitTenant ==
  /\ users = InitialUsers
  /\ ledger = <<>>
  /\ applications = <<>>
  /\ distribution_requests = <<>>
  /\ clock = 1
  /\ nextId = 0
  /\ response = [ok |-> TRUE]
  /\ threads = [t \in Threads |-> IdleThread]
  /\ db_lock = 0
  /\ call = [op |-> "", DB_PATH |-> TENANT_MAP["huiying"],
             databases |-> [tn \in Tenants |-> tn]]

TenantQuiet ==
  UNCHANGED <<users, ledger, applications, distribution_requests, clock,
              nextId, response>>

\* the tenant whose database is at the path
TenantOfPath(path) == CHOOSE tn \in Tenants : TENANT_MAP[tn] = path

\* before_request: resolve the space (an unknown one, or one whose database
\* cannot be made, falls back to huiying) and point DB_PATH at its database;
\* kind keeps the tenant resolved for the request
_apply_tenant_space(t, space, ensured) ==
  /\ threads[t].pc = "idle"
  /\ LET chosen == IF space \in Tenants /\ ensured THEN space ELSE "huiying"
     IN /\ threads' = [threads EXCEPT ![t] =
               [IdleThread EXCEPT !.pc = "load_users", !.kind = chosen]]
        /\ call' = [call EXCEPT !.DB_PATH = TENANT_MAP[chosen]]
  /\ UNCHANGED db_lock
  /\ TenantQuiet

\* users = load_users(): the collection of the database DB_PATH names now;
\* current keeps the tenant the collection belongs to
tenant_load_users(t) ==
  /\ threads[t].pc = "load_users"
  /\ threads' = [threads EXCEPT ![t] =
       [@ EXCEPT !.pc = "save_users",
                 !.current = call.databases[TenantOfPath(call.DB_PATH)]]]
  /\ UNCHANGED <<db_lock, call>>
  /\ TenantQuiet

\* save_users(users): with db_lock
tenant_acquire_db_lock(t) ==
  /\ threads[t].pc = "save_users"
  /\ db_lock = 0
  /\ db_lock' = t
  /\ threads' = [threads EXCEPT ![t] = [@ EXCEPT !.pc = "write_users"]]
  /\ UNCHANGED call
  /\ TenantQuiet

\* save_users(users): the collection replaces the table of the database
\* DB_PATH names now; name keeps the tenant of the database written
tenant_write_users(t) ==
  /\ threads[t].pc = "write_users"
  /\ db_lock = t
  /\ LET written == TenantOfPath(call.DB_PATH)
     IN /\ call' = [call EXCEPT !.op = "save_users",
                                !.databases[written] = threads[t].current]
        /\ threads' = [threads EXCEPT ![t] =
               [@ EXCEPT !.pc = "respond", !.name = written]]
  /\ db_lock' = 0
  /\ TenantQuiet

\* the handler returns
tenant_respond(t) ==
  /\ threads[t].pc = "respond"
  /\ threads' = [threads EXCEPT ![t] = IdleThread]
  /\ UNCHANGED <<db_lock, call>>
  /\ TenantQuiet

NextTenant ==
  \E t \in Threads :
    \/ \E space \in Spaces, ensured \in BOOLEAN :
         _apply_tenant_space(t, space, ensured)
    \/ tenant_load_users(t)
    \/ tenant_acquire_db_lock(t)
    \/ tenant_write_users(t)
    \/ tenant_respond(t)

SpecTenant == InitTenant /\ [][NextTenant]_vars

\* C36: for every interleaving of requests of different tenants, a save made
\* while handling a request goes to the database of the tenant resolved for
\* that request, so no database ever holds another tenant's collection
C36_TenantIsolation ==
  /\ \A t \in Threads :
       threads[t].pc = "respond" => threads[t].name = threads[t].kind
  /\ \A tn \in Tenants : call.databases[tn] = tn

\* ---------------------------------------------------------------------------
\* the life of wholesale applications: approve, reject, update and batch
\* requests served one after the other on applications already filed
\* ---------------------------------------------------------------------------

MaxFiled == 2

\* the applications apply_bulk filed, all pending
FiledApplications ==
  {[i \in 1..MaxFiled |-> [apps[i] EXCEPT !.id = i]] :
     apps \in [1..MaxFiled -> ApplicationRecords]}

InitApplications ==
  /\ users = InitialUsers
  /\ ledger = <<>>
  /\ applications \in FiledApplications
  /\ distribution_requests = <<>>
  /\ clock = 1
  /\ nextId = 0
  /\ response = [ok |-> TRUE]
  /\ threads = [t \in Threads |-> IdleThread]
  /\ db_lock = 0
  /\ call = NoCall(EmptyRecord)

\* update_application: count, price and product of a pending application
update_application(admin, app_id, count, price, product) ==
  /\ SessionAdmin(users, admin)
  /\ IF app_id \in 1..Len(applications) /\ applications[app_id].status = "pending"
     THEN /\ applications' =
               [applications EXCEPT ![app_id].count = count,
                                    ![app_id].price = price,
                                    ![app_id].product = product]
          /\ response' = [ok |-> TRUE]
     ELSE /\ response' = [ok |-> FALSE]
          /\ UNCHANGED applications
  /\ UNCHANGED <<users, ledger, distribution_requests, clock, nextId>>

\* the stores after _approve_application(apps[i]) drew the usernames unames;
\* ok tells that unames are usernames gen_username_numeric can draw
_approve_application(st, i, unames, admin, t) ==
  [users |-> ApprovedUsers(st.users, st.applications[i], unames, t),
   ledger |-> ApprovedLedger(st.ledger, st.applications[i], admin, t, st.nextId),
   nextId |-> IdsAfterLoad(st.ledger, st.nextId) + 2,
   applications |-> [st.applications EXCEPT ![i].status = "approved"],
   ok |-> /\ st.ok
          /\ unames \in DrawnNames(st.users, st.applications[i])]

\* batch_applications, action 'approve': the applications from the i-th on,
\* in the order of the file
RECURSIVE BatchApproved(_, _, _, _, _, _)
BatchApproved(st, ids, draws, admin, t, i) ==
  IF i > Len(st.applications) THEN st
  ELSE IF i \in ids /\ st.applications[i].status = "pending"
  THEN BatchApproved(_approve_application(st, i, draws[i], admin, t),
                     ids, draws, admin, t, i + 1)
  ELSE BatchApproved([st EXCEPT !.ok = st.ok /\ draws[i] = {}],
                     ids, draws, admin, t, i + 1)

batch_applications(admin, action, ids) ==
  /\ SessionAdmin(users, admin)
  /\ IF action = "approve"
     THEN \E draws \in [1..Len(applications) -> SUBSET Usernames] :
            LET st == BatchApproved(
                        [users |-> users, ledger |-> ledger, nextId |-> nextId,
                         applications |-> applications, ok |-> TRUE],
                        ids, draws, admin, Now, 1)
            IN /\ st.ok
               /\ Len(st.ledger) <= MaxLedger
               /\ users' = st.users
               /\ ledger' = st.ledger
               /\ nextId' = st.nextId
               /\ applications' = st.applications
     ELSE IF action = "reject"
     THEN /\ applications' =
               [i \in 1..Len(applications) |->
                  IF i \in ids /\ applications[i].status = "pending"
                  THEN [applications[i] EXCEPT !.status = "rejected"]
                  ELSE applications[i]]
          /\ UNCHANGED <<users, ledger, nextId>>
     ELSE UNCHANGED <<users, ledger, nextId, applications>>
  /\ response' = [ok |-> TRUE]
  /\ UNCHANGED <<distribution_requests, clock>>

\* the unit prices the operator can correct an application to, in cents
CorrectedPrices == Prices \cup {ProductPrice(pr) : pr \in Products}

NextApplications ==
  \/ \E ad \in Admins, i \in 1..MaxFiled : approve_application(ad, i) /\ Quiet
  \/ \E ad \in Admins, i \in 1..MaxFiled : reject_application(ad, i) /\ Quiet
  \/ \E ad \in Admins, i \in 1..MaxFiled, c \in Counts, p \in CorrectedPrices,
         pr \in Products : update_application(ad, i, c, p, pr) /\ Quiet
  \/ \E ad \in Admins, act \in {"approve", "reject", ""},
         ids \in SUBSET (1..MaxFiled) : batch_applications(ad, act, ids) /\ Quiet

SpecApplications == InitApplications /\ [][NextApplications]_vars

\* the units of the approved applications among the first i
RECURSIVE ApprovedUnits(_, _)
ApprovedUnits(apps, i) ==
  IF i = 0 THEN 0
  ELSE ApprovedUnits(apps, i - 1)
       + (IF apps[i].status = "approved" THEN UnitsOf(apps[i].count) ELSE 0)

ApprovedCount(apps) ==
  Cardinality({i \in 1..Len(apps) : apps[i].status = "approved"})

\* accounts and ledger entries exist once for each approved application
CreatedOnce ==
  /\ Cardinality({n \in DOMAIN users : Get(users[n].source) = "agent"})
       = ApprovedUnits(applications, Len(applications))
  /\ Len(ledger) = 2 * ApprovedCount(applications)
  /\ Cardinality({i \in 1..Len(ledger) :
                    ledger[i].transaction_type = TRANSACTION_ADMIN_TO_AGENT})
       = ApprovedCount(applications)
  /\ Cardinality({i \in 1..Len(ledger) :
                    ledger[i].transaction_type = TRANSACTION_AGENT_PURCHASE})
       = ApprovedCount(applications)

\* C37: under any sequence of approve, reject, update and batch requests an
\* application that is approved or rejected never changes again, and the
\* accounts and the pair of ledger entries are created for it at most once
C37_ActedOnOnlyWhilePending ==
  [][/\ Len(applications') = Len(applications)
     /\ \A i \in 1..Len(applications) :
          applications[i].status # "pending"
            => applications'[i] = applications[i]
     /\ CreatedOnce']_vars

\* both applications were settled, one approved and one rejected, and a
\* request on them followed
C37_Witness ==
  /\ \E i, j \in 1..Len(applications) :
       /\ applications[i].status = "approved" /\ applications[i].count > 0
       /\ applications[j].status = "rejected"
  /\ ~response.ok

\* ---------------------------------------------------------------------------
\* distributor stock requests with two agents
\* ---------------------------------------------------------------------------

InitRequests ==
  /\ users = [n \in Admins \cup RaceAgents |->
                IF n \in Admins THEN ActorRecord(TRUE, FALSE)
                ELSE ActorRecord(FALSE, TRUE)]
  /\ ledger = <<>>
  /\ applications = <<>>
  /\ distribution_requests = <<>>
  /\ clock = 1
  /\ nextId = 0
  /\ response = [ok |-> TRUE]
  /\ threads = [t \in Threads |-> IdleThread]
  /\ db_lock = 0
  /\ call = NoCall(EmptyRecord)

NextRequests ==
  \/ \E a \in RaceAgents, c \in Counts, p \in Prices, pr \in Products :
       apply_bulk(a, c, p, pr) /\ Quiet
  \/ \E ad \in Admins, i \in 1..MaxApplications :
       approve_application(ad, i) /\ Quiet
  \/ \E a \in RaceAgents, n \in Usernames : mark_sold(a, n) /\ Quiet
  \/ \E a \in RaceAgents, n \in Usernames : assign_distributor(a, n) /\ Quiet
  \/ \E d \in Usernames, q \in 1..MaxCount, pr \in Products :
       distributor_stock_apply(d, q, pr) /\ Quiet
  \/ \E a \in RaceAgents, i \in 1..MaxRequests :
       approve_distribution_request(a, i) /\ Quiet
  \/ \E a \in RaceAgents, i \in 1..MaxRequests :
       reject_distribution_request(a, i) /\ Quiet

SpecRequests == InitRequests /\ [][NextRequests]_vars

\* request i is pending, names current_agent, and the agent's stock covers it
Approvable(current_agent, i) ==
  /\ i \in 1..Len(distribution_requests)
  /\ distribution_requests[i].agent = current_agent
  /\ distribution_requests[i].status = "pending"
  /\ Cardinality(available_accounts(users, current_agent))
       >= distribution_requests[i].quantity

\* C38: approving a stock request while the agent holds fewer agent_stock
\* accounts than requested changes nothing (no account, no ledger entry, the
\* request stays pending), and a request that is approved or rejected already,
\* or that names another agent, is never approved
C38_ApprovalGuarded ==
  [][/\ \A a \in RaceAgents, i \in 1..MaxRequests :
          (approve_distribution_request(a, i) /\ ~Approvable(a, i))
            => UNCHANGED <<users, ledger, distribution_requests>>
     /\ \A i \in 1..Len(distribution_requests) :
          /\ distribution_requests[i].status # "pending"
               => distribution_requests'[i].status = distribution_requests[i].status
          /\ distribution_requests'[i].status = "approved"
               => \/ distribution_requests[i].status = "approved"
                  \/ /\ Approvable(distribution_requests[i].agent, i)
                     /\ ledger'[Len(ledger') - 1].actor
                          = distribution_requests[i].agent]_vars

\* the agent was short of stock when asked to approve, and the request is
\* pending still
C38_Witness ==
  /\ ~response.ok
  /\ \E i \in 1..Len(distribution_requests) :
       /\ distribution_requests[i].status = "pending"
       /\ distribution_requests[i].quantity
            > Cardinality(available_accounts(users, distribution_requests[i].agent))
       /\ available_accounts(users, distribution_requests[i].agent) # {}

\* ---------------------------------------------------------------------------
\* sale entries of one account
\* ---------------------------------------------------------------------------

\* the positions of the ledger entries that book a sale of the account
SaleEntries(records, name) ==
  {i \in 1..Len(records) :
     /\ records[i].transaction_type
          \in {TRANSACTION_AGENT_DIRECT_SALE, TRANSACTION_DISTRIBUTOR_SALE}
     /\ records[i].direction = "in"
     /\ records[i].account_username = name}

\* the ledger file after distributor_mark_sold served the request
distributor_mark_sold_ledger(us, file, username, current, t, base) ==
  IF username \in DOMAIN us /\ DistributorCanSell(us, username, current)
  THEN record_transaction(
         load_ledger(file, t, base),
         DistributorSaleEntry(
           [us EXCEPT ![username] = DistributorSoldRecord(@, current, t)],
           username, current),
         t, IdsAfterLoad(file, base) + 1)
  ELSE file

\* C39: under any sequence of mark-sold and mark-unsold operations the ledger
\* holds at most one sale entry (agent_direct_sale or distributor_sale,
\* direction in) naming an account, so its price counts once in the seller's
\* revenue: in the ledger as it is, and as a distributor's next mark-sold
\* request leaves it
C39_OneSaleEntryPerAccount ==
  /\ \A name \in DOMAIN users : Cardinality(SaleEntries(ledger, name)) <= 1
  /\ \A d \in Names, name \in DOMAIN users :
       SessionDistributor(users, d)
         => Cardinality(SaleEntries(
              distributor_mark_sold_ledger(users, ledger, name, d, Now, nextId),
              name)) <= 1

\* ---------------------------------------------------------------------------
\* the manager of an account after its hand-off
\* ---------------------------------------------------------------------------

\* agent a's direct sale n is in the hands of a's distributor d1
HandedOffTo(us, n, a, d1) ==
  /\ n \in DOMAIN us
  /\ SoldAs(us, n, SALE_TYPE_DIRECT)
  /\ Accounting(us, n, "owner") = a
  /\ Accounting(us, n, "manager") = d1
  /\ ValidDistributor(us, d1, a)
  /\ Truthy(Get(us[n].assigned_at))

\* the record but for the time of the hand-off
SameButAssignedAt(after, before) ==
  \A f \in DOMAIN before \ {"assigned_at"} : after[f] = before[f]

\* C40: once a sold direct_sale account is handed off to distributor d1, a
\* later assign_accounts request naming another distributor d2 of the same
\* agent is rejected for the account and its manager remains d1, and a request
\* naming d1 again leaves the account's state as it is
C40_ManagerStable ==
  \A a \in Agents, n \in Usernames, d1 \in Usernames :
    (SessionAgent(users, a) /\ HandedOffTo(users, n, a, d1)) =>
      \A d2 \in Usernames, ns \in NameLists :
        (ValidDistributor(users, d2, a) /\ InList(ns, n)) =>
          IF d2 # d1
          THEN /\ assign_accounts_result(users, ns, a, d2, Now).users[n] = users[n]
               /\ InList(assign_accounts_result(users, ns, a, d2, Now)
                           .response.invalid_accounts, n)
          ELSE /\ SameButAssignedAt(
                    assign_accounts_result(users, ns, a, d2, Now).users[n], users[n])
               /\ ~InList(assign_accounts_result(users, ns, a, d2, Now)
                            .response.invalid_accounts, n)

\* a handed-off account, and a second distributor of the same agent
C40_Witness ==
  \E a \in Agents, n \in Usernames, d1 \in Usernames, d2 \in Usernames :
    /\ HandedOffTo(users, n, a, d1)
    /\ d2 # d1
    /\ ValidDistributor(users, d2, a)
    /\ clock > 1

====
